---- MODULE Spec2Model ----
(***************************************************************************)
(* redicts: a hierarchical, re-entrant lock and a hierarchical value       *)
(* proxy on top of a Redis server.                                         *)
(*                                                                         *)
(* The Redis server is the shared state (one keyspace, per-connection      *)
(* WATCH sets); every client is one (pid, tid) owner that runs the methods *)
(* of redicts.lock.Lock one server round trip at a time.                   *)
(*                                                                         *)
(* Strings are sequences of one-character strings, dotted paths are        *)
(* sequences of path elements ("l:.a.b" is <<"l:", "a", "b">>).            *)
(***************************************************************************)
EXTENDS Integers, Sequences, FiniteSets, TLC

\* ------------------------------------------------------------------ bounds

\* Number of concurrent clients (owners).
NumClients == 2

\* Number of lock operations the clients may start, all together.
MaxOps == 3

\* Number of calls the single client of SpecSolo may make.
MaxSoloOps == 5

\* Number of locked increments each worker of SpecWorkers makes
\* (n_increments).
Iterations == 2

\* ------------------------------------------------------- program constants

\* Polls per second of acquire timeout. The code polls 20 times per second
\* (lock.py:91); the model scales the factor down, the budget stays
\* _acquire_seconds * PollsPerSecond.
PollsPerSecond == 2

\* An absent key: GET returns None and TTL returns -2.
Nil == [val |-> <<>>, ttl |-> -2]

\* ------------------------------------------------------------ Python values

\* A Python number: float tells a float from an int, halves is twice its
\* value (so 1.5 is [float |-> TRUE, halves |-> 3]).
PyInt(n) == [float |-> FALSE, halves |-> 2 * n]

PyFloatHalves(h) == [float |-> TRUE, halves |-> h]

\* A max(1, x) that returns x.
PyNoFloor(x) == x

\* max(1, x) of lock.py:46-47: the first of the largest arguments, so 1 (the
\* int) unless x > 1.
PyMax1(x) == IF x.halves > 2 THEN x ELSE PyInt(1)

\* x * n for an int n.
PyTimes(x, n) == [float |-> x.float, halves |-> x.halves * n]

\* x - 1
PyMinus1(x) == [float |-> x.float, halves |-> x.halves - 2]

\* x > 0
PyPositive(x) == x.halves > 0

\* "x is 0": identity with the small int 0, which no float is.
PyIsZero(x) == ~x.float /\ x.halves = 0

\* ------------------------------------------------------------------ strings

Digits == <<"0", "1", "2", "3", "4", "5", "6", "7", "8", "9">>

IsDigit(ch) == \E i \in 1..10 : Digits[i] = ch

DigitValue(ch) == (CHOOSE i \in 1..10 : Digits[i] = ch) - 1

\* str(n) / '{}'.format(n) of an int.
RECURSIVE IntToStr(_)
IntToStr(n) ==
    IF n < 0 THEN <<"-">> \o IntToStr(-n)
    ELSE IF n < 10 THEN <<Digits[n + 1]>>
    ELSE IntToStr(n \div 10) \o <<Digits[(n % 10) + 1]>>

RECURSIVE DigitsToNat(_)
DigitsToNat(s) ==
    IF s = <<>> THEN 0
    ELSE 10 * DigitsToNat(SubSeq(s, 1, Len(s) - 1)) + DigitValue(s[Len(s)])

AllDigits(s) == s # <<>> /\ \A i \in 1..Len(s) : IsDigit(s[i])

\* int(s): an optional sign and decimal digits; anything else is a
\* ValueError.
IsIntStr(s) ==
    IF s # <<>> /\ s[1] \in {"-", "+"} THEN AllDigits(Tail(s)) ELSE AllDigits(s)

StrToInt(s) ==
    IF s[1] = "-" THEN 0 - DigitsToNat(Tail(s))
    ELSE IF s[1] = "+" THEN DigitsToNat(Tail(s))
    ELSE DigitsToNat(s)

\* Index of the first sep in s, 0 when there is none.
FindChar(s, sep) ==
    IF \E i \in 1..Len(s) : s[i] = sep
    THEN CHOOSE i \in 1..Len(s) : s[i] = sep /\ \A j \in 1..(i - 1) : s[j] # sep
    ELSE 0

\* s.split(sep, maxsplit)
RECURSIVE Split(_, _, _)
Split(s, sep, maxsplit) ==
    LET i == FindChar(s, sep) IN
    IF maxsplit = 0 \/ i = 0 THEN <<s>>
    ELSE <<SubSeq(s, 1, i - 1)>> \o Split(SubSeq(s, i + 1, Len(s)), sep, maxsplit - 1)

\* ------------------------------------------------------------ path helpers

\* util.build_key_hierarchy: the key and all of its parents, deepest first.
\* key[:key.rindex('.')] drops the last element; a key of one element has no
\* dot, which ends the loop.
RECURSIVE build_key_hierarchy(_)
build_key_hierarchy(key) ==
    IF Len(key) > 1
    THEN <<key>> \o build_key_hierarchy(SubSeq(key, 1, Len(key) - 1))
    ELSE <<key>>

SeqToSet(s) == {s[i] : i \in 1..Len(s)}

\* proxy.py:72, the prefix of the lock tree.
LOCK_TREE_PREFIX == "l:"

\* The paths the clients lock: l:.a and its child l:.a.b (the root l: is
\* part of both chains).
LockPaths ==
    { <<LOCK_TREE_PREFIX, "a">>,
      <<LOCK_TREE_PREFIX, "a", "b">> }

\* Every key of the lock tree that an operation reads, watches or writes.
LockKeys == UNION {SeqToSet(build_key_hierarchy(p)) : p \in LockPaths}

\* proxy.py:73, the prefix of the value tree.
VAL_TREE_PREFIX == "v:"

\* The path of the proxy the workers share (['QC'] in the test) and the key
\* they increment.
WorkerPath == <<"a">>

WorkerLockKey == <<LOCK_TREE_PREFIX>> \o WorkerPath

XKey == <<VAL_TREE_PREFIX>> \o WorkerPath \o <<"x">>

\* ------------------------------------------------------ values of a proxy

\* A Python value: None, an int, a bool or a dict. The keys of a dict are
\* strings, written like every dotted string as the sequence of their
\* dot-free parts ("b" is <<"b">>, "a.b" is <<"a", "b">>); items maps the
\* keys to values.
NoItems == [k \in {} |-> 0]

PyNone == [kind |-> "None", n |-> 0, items |-> NoItems]

PyNum(n) == [kind |-> "int", n |-> n, items |-> NoItems]

PyBool(b) == [kind |-> "bool", n |-> IF b THEN 1 ELSE 0, items |-> NoItems]

PyDict(items) == [kind |-> "dict", n |-> 0, items |-> items]

\* d[k] = v
DictPut(items, k, v) ==
    [x \in (DOMAIN items) \cup {k} |-> IF x = k THEN v ELSE items[x]]

\* The values that are no mapping.
Scalars == {PyNum(1), PyNone}

\* The mappings the clients store: keys with and without a dot, values that
\* are scalars or mappings of one level, empty ones included.
InnerKeys == {<<"b">>}

OuterKeys == {<<"b">>, <<"a", "b">>}

DictsOver(keys, values) ==
    {PyDict(f) : f \in UNION {[ks -> values] : ks \in SUBSET keys}}

Mappings == DictsOver(OuterKeys, Scalars \cup DictsOver(InnerKeys, Scalars))

\* util.extract_keys: the (dotted key, value) pairs of the leaves of nested,
\* every key below prefix. An empty dict has no leaf.
RECURSIVE extract_keys(_, _)
extract_keys(nested, prefix) ==
    UNION { IF nested[k].kind = "dict"
            THEN extract_keys(nested[k].items, prefix \o k)
            ELSE {<<prefix \o k, nested[k]>>} : k \in DOMAIN nested }

\* util.feed_to_nested: nested with value stored at the dotted path
\* full_key; what is in the way and no dict is replaced by a fresh dict.
RECURSIVE feed_to_nested(_, _, _)
feed_to_nested(nested, full_key, value) ==
    LET key == <<Head(full_key)>> IN
    IF Len(full_key) = 1 THEN DictPut(nested, key, value)
    ELSE LET curr == IF key \in DOMAIN nested /\ nested[key].kind = "dict"
                     THEN nested[key].items ELSE NoItems
         IN  DictPut(nested, key, PyDict(feed_to_nested(curr, Tail(full_key), value)))

\* The paths of the proxies the clients use and the sub-paths they pass to
\* get, set and delete.
ProxyPaths == {<<>>, <<"a">>}

SubPaths == {<<"a">>, <<"a", "b">>}

\* _Proxy._get_full_key, proxy.py:179-194: the value key of the proxy at
\* path, or of key below it.
FullKey(path, key) == <<VAL_TREE_PREFIX>> \o path \o key

\* The value keys a set() of the clients addresses, and the leaves a mapping
\* puts below them.
SetKeys == {FullKey(p, s) : p \in ProxyPaths, s \in SubPaths}

LeafKeys ==
    UNION {{kv[1] : kv \in extract_keys(m.items, k)} : m \in Mappings, k \in SetKeys}

\* A key next to v:.a whose name starts with the name of v:.a.
NameKey == <<VAL_TREE_PREFIX, "ax">>

ValueKeys ==
    SeqToSet(build_key_hierarchy(NameKey)) \cup
    UNION {SeqToSet(build_key_hierarchy(k)) : k \in {XKey} \cup SetKeys \cup LeafKeys}

Keys == LockKeys \cup ValueKeys

\* json.dumps of an int.
JsonDumps(n) == IntToStr(n)

\* json.loads of the text of an int.
JsonLoads(s) == StrToInt(s)

\* ------------------------------------------------------------------ owners

Clients == 1..NumClients

\* os.getpid() and threading.current_thread().ident of a client: clients 1
\* and 2 are two threads of process 1, clients 3 and 4 two threads of
\* process 2 (thread idents repeat across processes).
Pid(c) == ((c - 1) \div 2) + 1

Tid(c) == ((c - 1) % 2) + 1

\* ------------------------------------------------------------- lock tokens

\* util.build_lock_token, called by client c.
build_lock_token(c, count) ==
    IntToStr(Pid(c)) \o <<":">> \o IntToStr(Tid(c)) \o <<":">> \o IntToStr(count)

\* util.parse_lock_token: err is the exception raised, "none" when it
\* returns [pid, thread_ident, lock_count].
parse_lock_token(token) ==
    LET splitted == Split(token, ":", 2) IN
    IF Len(splitted) # 3
    THEN [err |-> "InternalError", pid |-> 0, tid |-> 0, lock_count |-> 0]
    ELSE IF \E i \in 1..3 : ~IsIntStr(splitted[i])
    THEN [err |-> "ValueError", pid |-> 0, tid |-> 0, lock_count |-> 0]
    ELSE [err |-> "none",
          pid |-> StrToInt(splitted[1]),
          tid |-> StrToInt(splitted[2]),
          lock_count |-> StrToInt(splitted[3])]

\* ------------------------------------------------------------------- state

VARIABLES
    redis,      \* the server's keyspace: key -> Nil or [val, ttl]; ttl -1 is "no expiry"
    watching,   \* the server's WATCH set of each client's pipeline connection
    dirty,      \* whether a watched key of the client was touched since WATCH
    lockCfg,    \* the arguments every Lock was constructed with
    cl,         \* each client's position in the Lock method it runs
    opsLeft,    \* operations the clients may still start
    prog,       \* the program the clients run, and where they are in it
    hist        \* history of the run: exhausted and expired are kept when
                \* hist.on, polls and lost when hist.detail (Init fixes both):
                \*   polls[c]   time.sleep calls of c's latest acquire()
                \*   lost[c]    keys on which c's lock expired since its last
                \*              successful acquire
                \*   exhausted  some acquire() used up its polling budget
                \*   expired    some lock key expired

vars == <<redis, watching, dirty, lockCfg, cl, opsLeft, prog, hist>>

\* ----------------------------------------------------------- configuration

\* acquire_timeout arguments: 0 (floored to one second) and 1.5.
AcquireTimeouts == {PyInt(0), PyFloatHalves(3)}

\* expire_timeout arguments, in seconds.
ExpireTimeouts == {2}

\* Lock.__init__: self._expire_seconds
ExpireSeconds == IF lockCfg.expire_timeout > 1 THEN lockCfg.expire_timeout ELSE 1

\* Lock.__init__: self._acquire_seconds
AcquireSeconds == PyMax1(lockCfg.acquire_timeout)

\* The polling budget of one _acquire call.
InitialRetries == PyTimes(AcquireSeconds, PollsPerSecond)

\* ------------------------------------------------------------ Redis server

\* TTL of a key without expiry.
NoTTL == -1

\* SET key val [EX ex]: a plain SET drops any expiry of the key.
RedisSet(db, k, v) == [db EXCEPT ![k] = [val |-> v, ttl |-> NoTTL]]

\* EXPIRE key secs (secs >= 1 here).
RedisExpire(db, k, secs) ==
    IF db[k] = Nil THEN db ELSE [db EXCEPT ![k] = [val |-> db[k].val, ttl |-> secs]]

\* DEL key
RedisDelete(db, k) == [db EXCEPT ![k] = Nil]

RedisApply(db, c) ==
    CASE c.cmd = "SET" -> RedisSet(db, c.key, c.arg)
      [] c.cmd = "EXPIRE" -> RedisExpire(db, c.key, c.arg)
      [] c.cmd = "DELETE" -> RedisDelete(db, c.key)

\* The commands queued after MULTI, run in order by EXEC.
RECURSIVE RedisApplyAll(_, _)
RedisApplyAll(db, cmds) ==
    IF cmds = <<>> THEN db
    ELSE RedisApplyAll(RedisApply(db, Head(cmds)), Tail(cmds))

\* The keys whose watchers a run of cmds on db invalidates: every key a SET
\* writes, and every existing key that is expired or deleted.
RECURSIVE TouchedBy(_, _)
TouchedBy(db, cmds) ==
    IF cmds = <<>> THEN {}
    ELSE LET c == Head(cmds) IN
         (IF c.cmd = "SET" \/ db[c.key] # Nil THEN {c.key} ELSE {})
             \cup TouchedBy(RedisApply(db, c), Tail(cmds))

\* The dirty flags after client c's connection touched the keys ks and its
\* own watches were dropped (EXEC, UNWATCH).
DirtyAfter(c, ks) ==
    [d \in Clients |->
        IF d = c THEN FALSE ELSE dirty[d] \/ (watching[d] \cap ks # {})]

\* ----------------------------------------------------------------- clients

\* The operations of the clients of Spec.
Ops == {"acquire", "release"}

\* A client outside every Lock method; ret is what its last call returned
\* or raised.
Idle(ret) ==
    [pc |-> "idle", op |-> "none", key |-> <<>>, idx |-> 0, target |-> <<>>,
     retries |-> PyInt(0), lock_count |-> 0, stack |-> <<>>, result |-> "None",
     ret |-> ret]

\* A client whose callback has returned to _find_root_lock with the commands
\* of stack queued (the callback's local variables are gone): pipe.execute()
\* is next.
AtExec(c, stack, result) ==
    [Idle(cl[c].ret) EXCEPT !.pc = "exec", !.op = cl[c].op, !.key = cl[c].key,
                            !.stack = stack, !.result = result]

\* The owner recorded in an existing lock key.
TokenOf(db, k) == parse_lock_token(db[k].val)

\* IsOwn that takes every token for the client's own.
IsOwnAnyone(c, tok) == TRUE

\* _acquire, lock.py:106: the token is one of the client's own locks.
IsOwn(c, tok) == tok.pid = Pid(c) /\ tok.tid = Tid(c)

NoHistory(on, detail) ==
    [on |-> on,
     detail |-> detail,
     polls |-> [c \in Clients |-> 0],
     lost |-> [c \in Clients |-> {}],
     exhausted |-> FALSE,
     expired |-> FALSE]

\* A server without keys.
EmptyDb == [k \in Keys |-> Nil]

\* The state all specifications start from: idle clients on a server that
\* holds db.
Start(db) ==
    /\ redis = db
    /\ watching = [c \in Clients |-> {}]
    /\ dirty = [c \in Clients |-> FALSE]
    /\ lockCfg \in [acquire_timeout : AcquireTimeouts, expire_timeout : ExpireTimeouts]
    /\ cl = [c \in Clients |-> Idle("None")]

Init ==
    /\ Start(EmptyDb)
    /\ opsLeft = MaxOps
    /\ prog = [kind |-> "free"]
    /\ hist = NoHistory(FALSE, FALSE)

\* The client leaves the `with pipeline()` block by a return or an exception:
\* the pipeline is reset, which drops its watches.
Leave(c, ret, db, touched) ==
    /\ cl' = [cl EXCEPT ![c] = Idle(ret)]
    /\ redis' = db
    /\ watching' = [watching EXCEPT ![c] = {}]
    /\ dirty' = DirtyAfter(c, touched)

\* _find_root_lock, lock.py:53: pipe.watch(*keys), at the start of every
\* targeting pass.
StartPass(c, o, k) ==
    /\ cl' = [cl EXCEPT ![c] =
                [Idle(cl[c].ret) EXCEPT !.pc = "scan", !.op = o, !.key = k, !.idx = 1]]
    /\ watching' = [watching EXCEPT ![c] = SeqToSet(build_key_hierarchy(k))]
    /\ dirty' = [dirty EXCEPT ![c] = FALSE]

\* Lock.acquire / Lock.release / Lock.is_locked up to the first WATCH.
Enter(c, o, k) ==
    /\ cl[c].pc = "idle"
    /\ StartPass(c, o, k)
    /\ hist' = IF o = "acquire" THEN [hist EXCEPT !.polls[c] = 0] ELSE hist
    /\ UNCHANGED <<redis, lockCfg>>

\* A client of Spec calls acquire() or release() on one of the paths.
Call(c, o, k) ==
    /\ prog.kind = "free"
    /\ opsLeft > 0
    /\ opsLeft' = opsLeft - 1
    /\ Enter(c, o, k)
    /\ UNCHANGED prog

\* _find_root_lock, lock.py:56-64: one pipe.get(key) of the scan of the
\* chain. The first key that is set is the target, the own key when none is;
\* the callback starts with its local variables (lock.py:91-92).
ScanGet(c) ==
    /\ cl[c].pc = "scan"
    /\ LET keys == build_key_hierarchy(cl[c].key)
           k == keys[cl[c].idx]
           body(t) == [cl[c] EXCEPT !.pc = "body", !.idx = 0, !.target = t,
                                    !.retries = IF cl[c].op = "acquire"
                                                THEN InitialRetries ELSE PyInt(0)]
       IN  cl' = [cl EXCEPT ![c] =
                    IF redis[k] # Nil THEN body(k)
                    ELSE IF cl[c].idx < Len(keys) THEN [cl[c] EXCEPT !.idx = @ + 1]
                    ELSE body(cl[c].key)]
    /\ UNCHANGED <<redis, watching, dirty, lockCfg, opsLeft, prog, hist>>

\* _acquire, lock.py:120-125: the commands queued once the loop is left.
AcquireCommands(c, key, lock_count) ==
    << [cmd |-> "SET", key |-> key, arg |-> build_lock_token(c, lock_count + 1)],
       [cmd |-> "EXPIRE", key |-> key, arg |-> ExpireSeconds] >>

\* _acquire, lock.py:113-125: after the loop either LockTimeout is raised or
\* the take-over is queued.
AfterLoop(c, retries, lock_count) ==
    IF PyIsZero(retries)
    THEN /\ Leave(c, "LockTimeout", redis, {})
    ELSE /\ cl' = [cl EXCEPT ![c] =
                     AtExec(c, AcquireCommands(c, cl[c].target, lock_count), "None")]
         /\ UNCHANGED <<redis, watching, dirty>>

\* _acquire, lock.py:97-111: one iteration of the polling loop: read the
\* target, leave the loop when it is absent or the client's own, else sleep
\* and count the retry down.
AcquirePoll(c) ==
    /\ cl[c].pc = "body"
    /\ cl[c].op = "acquire"
    /\ LET key == cl[c].target IN
       IF redis[key] = Nil
       THEN /\ AfterLoop(c, cl[c].retries, cl[c].lock_count)
            /\ UNCHANGED hist
       ELSE LET tok == TokenOf(redis, key) IN
            IF tok.err # "none"
            THEN /\ Leave(c, tok.err, redis, {})
                 /\ UNCHANGED hist
            ELSE IF IsOwn(c, tok)
            THEN /\ AfterLoop(c, cl[c].retries, tok.lock_count)
                 /\ UNCHANGED hist
            ELSE LET retries == PyMinus1(cl[c].retries) IN
                 /\ hist' = IF hist.on
                            THEN [hist EXCEPT
                                    !.polls[c] = IF /\ hist.detail
                                                    /\ 2 * @ <= InitialRetries.halves
                                                 THEN @ + 1 ELSE @,
                                    !.exhausted = @ \/ ~PyPositive(retries)]
                            ELSE hist
                 /\ IF PyPositive(retries)
                    THEN /\ cl' = [cl EXCEPT ![c] =
                                     [cl[c] EXCEPT !.retries = retries,
                                                   !.lock_count = tok.lock_count]]
                         /\ UNCHANGED <<redis, watching, dirty>>
                    ELSE AfterLoop(c, retries, tok.lock_count)
    /\ UNCHANGED <<lockCfg, opsLeft, prog>>

\* ReleaseCommands without the EXPIRE after the SET of the decremented token.
ReleaseCommandsNoExpire(c, key, lock_count) ==
    IF lock_count = 1
    THEN << [cmd |-> "DELETE", key |-> key, arg |-> 0] >>
    ELSE << [cmd |-> "SET", key |-> key, arg |-> build_lock_token(c, lock_count - 1)] >>

\* ReleaseCommands that writes the decremented token also for a lock count of
\* 1, instead of deleting the key.
ReleaseCommandsNoDelete(c, key, lock_count) ==
    << [cmd |-> "SET", key |-> key, arg |-> build_lock_token(c, lock_count - 1)],
       [cmd |-> "EXPIRE", key |-> key, arg |-> ExpireSeconds] >>

\* _release, lock.py:156-163: the commands queued for a lock count >= 1.
ReleaseCommands(c, key, lock_count) ==
    IF lock_count = 1
    THEN << [cmd |-> "DELETE", key |-> key, arg |-> 0] >>
    ELSE << [cmd |-> "SET", key |-> key, arg |-> build_lock_token(c, lock_count - 1)],
            [cmd |-> "EXPIRE", key |-> key, arg |-> ExpireSeconds] >>

\* ReleaseAbsent without the check for a missing token: the token is parsed
\* whether it is there or not, and parsing None raises.
ReleaseAbsentUnchecked(c) ==
    Leave(c, "AttributeError", redis, {})

\* _release, lock.py:134-138: the token does not exist; just return, with
\* nothing queued.
ReleaseAbsent(c) ==
    /\ cl' = [cl EXCEPT ![c] = AtExec(c, <<>>, "None")]
    /\ UNCHANGED <<redis, watching, dirty>>

\* _release, lock.py:133-163.
ReleaseBody(c) ==
    /\ cl[c].pc = "body"
    /\ cl[c].op = "release"
    /\ LET key == cl[c].target IN
       IF redis[key] = Nil
       THEN ReleaseAbsent(c)
       ELSE LET tok == TokenOf(redis, key) IN
            IF tok.err # "none"
            THEN Leave(c, tok.err, redis, {})
            ELSE IF tok.lock_count <= 0
            THEN Leave(c, "InternalError", redis, {})
            ELSE /\ cl' = [cl EXCEPT ![c] =
                             AtExec(c, ReleaseCommands(c, key, tok.lock_count), "None")]
                 /\ UNCHANGED <<redis, watching, dirty>>
    /\ UNCHANGED <<lockCfg, opsLeft, prog, hist>>

\* is_locked that looks at the lock's own key instead of the key the scan of
\* the chain found.
IsLockedBodyOwnKey(c) ==
    /\ cl[c].pc = "body"
    /\ cl[c].op = "is_locked"
    /\ cl' = [cl EXCEPT ![c] =
                AtExec(c, <<>>, IF redis[cl[c].key] # Nil THEN "True" ELSE "False")]
    /\ UNCHANGED <<redis, watching, dirty, lockCfg, opsLeft, prog, hist>>

\* is_locked, lock.py:167-170.
IsLockedBody(c) ==
    /\ cl[c].pc = "body"
    /\ cl[c].op = "is_locked"
    /\ cl' = [cl EXCEPT ![c] =
                AtExec(c, <<>>, IF redis[cl[c].target] # Nil THEN "True" ELSE "False")]
    /\ UNCHANGED <<redis, watching, dirty, lockCfg, opsLeft, prog, hist>>

\* _find_root_lock, lock.py:66-67: pipe.execute() runs the queued commands
\* atomically and the method returns. With nothing queued, older redis-py
\* returns without asking the server, whatever happened to the watched keys.
ExecOk(c) ==
    /\ cl[c].pc = "exec"
    /\ ~dirty[c] \/ cl[c].stack = <<>>
    /\ Leave(c, cl[c].result, RedisApplyAll(redis, cl[c].stack),
             TouchedBy(redis, cl[c].stack))
    /\ hist' = IF cl[c].op = "acquire" THEN [hist EXCEPT !.lost[c] = {}] ELSE hist
    /\ UNCHANGED <<lockCfg, opsLeft, prog>>

\* ExecWatchError that lets the WatchError out of the method instead of
\* starting the pass again.
ExecWatchErrorRaises(c) ==
    /\ cl[c].pc = "exec"
    /\ dirty[c]
    /\ Leave(c, "WatchError", redis, {})
    /\ UNCHANGED <<lockCfg, opsLeft, prog, hist>>

\* _find_root_lock_with_retries, lock.py:77-83: pipe.execute() raises
\* WatchError because a watched key was touched; the pass starts again.
ExecWatchError(c) ==
    /\ cl[c].pc = "exec"
    /\ dirty[c]
    /\ StartPass(c, cl[c].op, cl[c].key)
    /\ UNCHANGED <<redis, lockCfg, opsLeft, prog, hist>>

\* One second passes on the server: every expiry counts down and the keys
\* that reach zero are gone. Whether that invalidates the WATCH of a client
\* depends on the server (it does not before Redis 6.0.9).
Tick ==
    /\ \E k \in Keys : redis[k] # Nil /\ redis[k].ttl >= 1
    /\ LET gone == {k \in Keys : redis[k] # Nil /\ redis[k].ttl = 1} IN
       /\ redis' = [k \in Keys |->
                      IF redis[k] = Nil \/ k \in gone THEN Nil
                      ELSE IF redis[k].ttl = NoTTL THEN redis[k]
                      ELSE [val |-> redis[k].val, ttl |-> redis[k].ttl - 1]]
       /\ \E notify \in BOOLEAN :
            dirty' = [d \in Clients |->
                        dirty[d] \/ (notify /\ watching[d] \cap gone # {})]
       /\ hist' = IF hist.on
                  THEN [hist EXCEPT
                          !.lost = [c \in Clients |->
                                      IF hist.detail
                                      THEN @[c] \cup {k \in gone \cap LockKeys :
                                                         IsOwn(c, TokenOf(redis, k))}
                                      ELSE @[c]],
                          !.expired = @ \/ (gone \cap LockKeys # {})]
                  ELSE hist
    /\ UNCHANGED <<watching, lockCfg, cl, opsLeft, prog>>

\* The steps of the Lock methods, whoever called them.
LockStep ==
    \/ \E c \in Clients : ScanGet(c)
    \/ \E c \in Clients : AcquirePoll(c)
    \/ \E c \in Clients : ReleaseBody(c)
    \/ \E c \in Clients : ExecOk(c)
    \/ \E c \in Clients : ExecWatchError(c)

Next ==
    \/ \E c \in Clients, o \in Ops, k \in LockPaths : Call(c, o, k)
    \/ LockStep
    \/ Tick

Spec == Init /\ [][Next]_vars

\* The same clients, with the history kept.
InitHist ==
    /\ Start(EmptyDb)
    /\ opsLeft = MaxOps
    /\ prog = [kind |-> "free"]
    /\ hist = NoHistory(TRUE, TRUE)

SpecHist == InitHist /\ [][Next]_vars

\* ------------------------------------------------ a single owner, one path

SoloClient == 1

SoloOps == {"acquire", "release", "is_locked"}

\* One owner has the server to itself and works on one path.
InitSolo ==
    /\ Start(EmptyDb)
    /\ opsLeft = MaxSoloOps
    /\ \E p \in LockPaths :
         prog = [kind |-> "solo", path |-> p, acquired |-> 0, released |-> 0,
                 last |-> "none"]
    /\ hist = NoHistory(TRUE, FALSE)

\* The owner calls acquire(), is_locked(), or a release() that one of its
\* acquire() calls is still waiting for.
SoloCall(o) ==
    /\ prog.kind = "solo"
    /\ opsLeft > 0
    /\ o = "release" => prog.released < prog.acquired
    /\ opsLeft' = opsLeft - 1
    /\ Enter(SoloClient, o, prog.path)
    /\ prog' = [prog EXCEPT !.last = o,
                            !.acquired = IF o = "acquire" THEN @ + 1 ELSE @,
                            !.released = IF o = "release" THEN @ + 1 ELSE @]

NextSolo ==
    \/ \E o \in SoloOps : SoloCall(o)
    \/ LockStep
    \/ \E c \in Clients : IsLockedBody(c)
    \/ Tick

SpecSolo == InitSolo /\ [][NextSolo]_vars

\* --------------------------------------------- workers incrementing a value

\* The value x has before the workers start.
InitialX == {0, 8}

Worker(pc, iter, v, exc) == [pc |-> pc, iter |-> iter, v |-> v, exc |-> exc]

\* test_parallel_proxy_sets: x is set, then every worker runs
\* _many_increments on its own proxy of the same path.
InitWorkers ==
    /\ \E x0 \in InitialX :
         /\ Start(RedisSet(EmptyDb, XKey, JsonDumps(x0)))
         /\ prog = [kind |-> "workers", x0 |-> x0,
                    w |-> [c \in Clients |-> Worker("enter", 0, 0, "none")]]
    /\ opsLeft = 0
    /\ hist = NoHistory(TRUE, FALSE)

\* `with proxy:` __enter__, proxy.py:168-170: acquire the proxy's lock.
WorkerEnter(c) ==
    /\ prog.kind = "workers"
    /\ prog.w[c].pc = "enter"
    /\ Enter(c, "acquire", WorkerLockKey)
    /\ prog' = [prog EXCEPT !.w[c].pc = "entering"]
    /\ UNCHANGED opsLeft

\* acquire() raised: the exception ends the worker.
WorkerEnterFails(c) ==
    /\ prog.kind = "workers"
    /\ prog.w[c].pc = "entering"
    /\ cl[c].pc = "idle"
    /\ cl[c].ret # "None"
    /\ prog' = [prog EXCEPT !.w[c].pc = "dead", !.w[c].exc = cl[c].ret]
    /\ UNCHANGED <<redis, watching, dirty, lockCfg, cl, opsLeft, hist>>

\* proxy.get("x").val(), proxy.py:273-303: the scalar stored under the key,
\* None when there is none (and None + 1 is a TypeError).
WorkerGetVal(c) ==
    /\ prog.kind = "workers"
    /\ prog.w[c].pc = "entering"
    /\ cl[c].pc = "idle"
    /\ cl[c].ret = "None"
    /\ prog' = IF redis[XKey] # Nil
               THEN [prog EXCEPT !.w[c].pc = "set",
                                 !.w[c].v = JsonLoads(redis[XKey].val)]
               ELSE [prog EXCEPT !.w[c].pc = "exit", !.w[c].exc = "TypeError"]
    /\ UNCHANGED <<redis, watching, dirty, lockCfg, cl, opsLeft, hist>>

\* clear_parents that deletes nothing.
clear_no_parents(db, parents) == db

\* util.clear_parents, util.py:148-156: DEL of every parent of the key.
RECURSIVE clear_parents(_, _)
clear_parents(db, parents) ==
    IF parents = <<>> THEN db
    ELSE clear_parents(RedisDelete(db, Head(parents)), Tail(parents))

\* proxy.set("x", v + 1), proxy.py:231-261, for a value that is no dict.
WorkerSet(c) ==
    /\ prog.kind = "workers"
    /\ prog.w[c].pc = "set"
    /\ redis' = RedisSet(clear_parents(redis, Tail(build_key_hierarchy(XKey))),
                         XKey, JsonDumps(prog.w[c].v + 1))
    /\ prog' = [prog EXCEPT !.w[c].pc = "exit"]
    /\ UNCHANGED <<watching, dirty, lockCfg, cl, opsLeft, hist>>

\* __exit__, proxy.py:172-173: release the proxy's lock.
WorkerExit(c) ==
    /\ prog.kind = "workers"
    /\ prog.w[c].pc = "exit"
    /\ Enter(c, "release", WorkerLockKey)
    /\ prog' = [prog EXCEPT !.w[c].pc = "exiting"]
    /\ UNCHANGED opsLeft

\* release() returned: the next iteration of the loop, or the end of the
\* worker; an exception of the body or of release() ends it.
WorkerLoop(c) ==
    /\ prog.kind = "workers"
    /\ prog.w[c].pc = "exiting"
    /\ cl[c].pc = "idle"
    /\ LET w == prog.w[c]
           exc == IF w.exc # "none" THEN w.exc
                  ELSE IF cl[c].ret # "None" THEN cl[c].ret ELSE "none"
       IN  prog' = [prog EXCEPT !.w[c] =
                      IF exc # "none" THEN Worker("dead", w.iter, 0, exc)
                      ELSE IF w.iter + 1 < Iterations
                      THEN Worker("enter", w.iter + 1, 0, "none")
                      ELSE Worker("done", w.iter + 1, 0, "none")]
    /\ UNCHANGED <<redis, watching, dirty, lockCfg, cl, opsLeft, hist>>

NextWorkers ==
    \/ \E c \in Clients : WorkerEnter(c)
    \/ \E c \in Clients : WorkerEnterFails(c)
    \/ \E c \in Clients : WorkerGetVal(c)
    \/ \E c \in Clients : WorkerSet(c)
    \/ \E c \in Clients : WorkerExit(c)
    \/ \E c \in Clients : WorkerLoop(c)
    \/ LockStep
    \/ Tick

SpecWorkers == InitWorkers /\ [][NextWorkers]_vars

\* ------------------------------------------------------------------ claims

Held(k) == redis[k] # Nil

\* Client c owns the lock key k.
Owns(c, k) == Held(k) /\ IsOwn(c, TokenOf(redis, k))

\* Two keys are owned by different owners.
DifferentOwners(k1, k2) ==
    LET t1 == TokenOf(redis, k1)
        t2 == TokenOf(redis, k2)
    IN  t1.pid # t2.pid \/ t1.tid # t2.tid

IsProperPrefix(k1, k2) == Len(k1) < Len(k2) /\ SubSeq(k2, 1, Len(k1)) = k1

Chain(p) == SeqToSet(build_key_hierarchy(p))

\* The step is one of client c.
StepOf(c) == cl'[c] # cl[c]

\* The step completes an acquire() of client c: its EXEC went through.
AcquireCompletes(c) ==
    /\ cl[c].pc = "exec"
    /\ cl[c].op = "acquire"
    /\ cl'[c].pc = "idle"

\* C1: while another owner holds the lock at P or at an ancestor of P, no
\* acquire(P) completes successfully.
C1_ForeignAcquireBlocked ==
    [][\A c \in Clients :
          AcquireCompletes(c) =>
              \A k \in Chain(cl[c].key) : Held(k) => Owns(c, k)]_vars

\* C2: no two lock keys of different owners lie on one chain (one key's path
\* a proper prefix of the other's).
C2_SubtreeGuarded ==
    \A k1, k2 \in LockKeys :
        (Held(k1) /\ Held(k2) /\ IsProperPrefix(k1, k2)) => ~DifferentOwners(k1, k2)

\* C3: of the ancestor chain of every path at most one key exists.
C3_OneKeyPerChain ==
    \A p \in LockPaths : Cardinality({k \in Chain(p) : Held(k)}) <= 1

\* The step is the poll of client c that uses up its budget: the target is
\* still held by another owner and the retry count reaches zero.
BudgetRunsOut(c) ==
    /\ cl[c].pc = "body"
    /\ cl[c].op = "acquire"
    /\ StepOf(c)
    /\ Held(cl[c].target)
    /\ ~Owns(c, cl[c].target)
    /\ ~PyPositive(PyMinus1(cl[c].retries))

\* C7: the poll that uses up the budget raises LockTimeout and leaves the
\* lock tree as it was; the caller is out of acquire() and owns nothing new.
C7_TimeoutLeavesNoState ==
    [][\A c \in Clients :
          BudgetRunsOut(c) =>
              /\ cl'[c] = Idle("LockTimeout")
              /\ redis' = redis]_vars

\* C8: one acquire() call sleeps at most acquire_timeout x PollsPerSecond
\* times, over all of its targeting passes.
C8_BudgetNotReplenished ==
    \A c \in Clients : 2 * hist.polls[c] <= InitialRetries.halves

\* Client c lost a lock on the chain of p by expiry and owns no lock key now.
LostLockOn(c, p) ==
    /\ hist.lost[c] \cap Chain(p) # {}
    /\ \A k \in LockKeys : ~Owns(c, k)

\* C10: a release(P) of an owner whose lock on P has expired changes nothing
\* in the lock tree, whoever holds a key of the chain by then.
C10_ReleaseAfterExpiryNoop ==
    [][\A c \in Clients :
          (cl[c].op = "release" /\ StepOf(c) /\ LostLockOn(c, cl[c].key)) =>
              redis' = redis]_vars

\* Every lock key that exists has an expiry, of at most the configured
\* expire timeout.
EveryLockKeyExpires ==
    \A k \in LockKeys : Held(k) => redis[k].ttl \in 1..ExpireSeconds

\* Every step that writes a lock token leaves the key with the full expire
\* timeout.
TokenWriteSetsTTL ==
    \A k \in LockKeys :
        (redis'[k] # Nil /\ redis'[k].val # redis[k].val) =>
            redis'[k].ttl = ExpireSeconds

\* C6: every lock key carries an expiry, and every write of a lock token
\* (first acquire, re-entrant acquire, release that leaves depth >= 1) sets
\* it to the configured expire timeout.
C6_LockKeysCarryTTL == []EveryLockKeyExpires /\ [][TokenWriteSetsTTL]_vars

\* A client is about to run the EXEC of a release that found depth 2: the
\* rewritten token of depth 1 comes with its EXPIRE.
C6_Witness ==
    \E c \in Clients :
        /\ cl[c].pc = "exec"
        /\ cl[c].op = "release"
        /\ ~dirty[c]
        /\ Len(cl[c].stack) = 2
        /\ Held(cl[c].stack[1].key)
        /\ TokenOf(redis, cl[c].stack[1].key).lock_count = 2
        /\ redis[cl[c].stack[1].key].ttl < ExpireSeconds

\* Client c runs a release() that found, or is finding, no key on its chain,
\* and no key of the chain exists.
ReleasingAbsent(c) ==
    /\ cl[c].op = "release"
    /\ \A k \in Chain(cl[c].key) : ~Held(k)
    /\ \/ cl[c].pc \in {"scan", "body"}
       \/ cl[c].pc = "exec" /\ cl[c].stack = <<>>

\* C9: release() on a path whose chain holds no lock key writes and deletes
\* nothing and raises nothing.
C9_ReleaseAbsentNoop ==
    [][\A c \in Clients :
          (ReleasingAbsent(c) /\ StepOf(c)) =>
              /\ redis' = redis
              /\ cl'[c].pc = "idle" => cl'[c].ret = "None"
              /\ cl'[c].pc = "exec" => cl'[c].stack = <<>>]_vars

\* A release() that found nothing on its chain is about to return, as the
\* first operation on an empty lock tree.
C9_Witness ==
    \E c \in Clients :
        /\ ReleasingAbsent(c)
        /\ cl[c].pc = "exec"
        /\ opsLeft = MaxOps - 1
        /\ \A k \in LockKeys : ~Held(k)

AllWorkersDone == \A c \in Clients : prog.w[c].pc = "done"

\* C4: when every worker has made all of its locked increments of x, and no
\* lock key expired and no acquire() used up its polling budget on the way,
\* x is its initial value plus the number of workers times the number of
\* iterations: no increment is lost.
C4_NoLostUpdate ==
    (AllWorkersDone /\ ~hist.expired /\ ~hist.exhausted)
        => /\ redis[XKey] # Nil
           /\ JsonLoads(redis[XKey].val) = prog.x0 + NumClients * Iterations

\* All workers are done after a run without expiry and without a used-up
\* budget, and the count went from one digit to two.
C4_Witness ==
    /\ AllWorkersDone
    /\ ~hist.expired
    /\ ~hist.exhausted
    /\ prog.x0 = 8
    /\ Len(redis[XKey].val) = 2

SoloBalanced ==
    /\ cl[SoloClient].pc = "idle"
    /\ prog.acquired = prog.released
    /\ ~hist.expired

\* C5: a single owner, no expiry: whenever the owner is between calls and has
\* made as many release() as acquire() calls on its path, each release after
\* its acquire, no key of the path's chain exists, and an is_locked() that
\* has just returned has returned False.
C5_BalancedLeavesNothing ==
    SoloBalanced
        => /\ \A k \in Chain(prog.path) : ~Held(k)
           /\ prog.last = "is_locked" => cl[SoloClient].ret = "False"

\* The owner took the lock on l:.a.b twice, released it twice and then
\* asked is_locked().
C5_Witness ==
    /\ SoloBalanced
    /\ prog.path = <<LOCK_TREE_PREFIX, "a", "b">>
    /\ prog.acquired = 2
    /\ prog.last = "is_locked"
    /\ opsLeft = 0

\* The lock key k is held by another thread of client c's process.
HeldBySiblingThread(c, k) ==
    /\ Held(k)
    /\ TokenOf(redis, k).pid = Pid(c)
    /\ TokenOf(redis, k).tid # Tid(c)

\* C11: a release() by a thread cannot release the lock another thread of
\* the same process holds: no step of the release changes a lock key that
\* the other thread holds (the key stays, with its owner and its depth).
C11_SiblingThreadCannotRelease ==
    [][\A c \in Clients :
          (cl[c].op = "release" /\ StepOf(c)) =>
              \A k \in LockKeys :
                  HeldBySiblingThread(c, k) => redis'[k] = redis[k]]_vars

\* ------------------------------------------------- scoped acquisition (with)

\* Number of `with` scopes the owner of SpecScope may enter.
MaxScopes == 3

\* The depth stored for path p: the lock count of the first key of p's chain
\* that exists, 0 when there is none.
LockDepth(db, p) ==
    LET keys == build_key_hierarchy(p)
        held == {i \in 1..Len(keys) : db[keys[i]] # Nil}
    IN  IF held = {} THEN 0
        ELSE TokenOf(db, keys[CHOOSE i \in held : \A j \in held : i <= j]).lock_count

\* One owner, outside every scope, on one lock (or proxy) path. frames holds,
\* for every scope it is in, the depth the lock had before the scope was
\* entered; exc is the exception that is propagating.
InitScope ==
    /\ Start(EmptyDb)
    /\ opsLeft = MaxScopes
    /\ \E p \in LockPaths :
         prog = [kind |-> "scope", path |-> p, pc |-> "out", frames |-> <<>>,
                 exc |-> "none", left |-> FALSE, before |-> 0]
    /\ hist = NoHistory(TRUE, FALSE)

\* `with lock:` __enter__, lock.py:182-184 (proxy.py:168-170): acquire().
ScopeEnter(c) ==
    /\ prog.kind = "scope"
    /\ prog.pc \in {"out", "body"}
    /\ prog.exc = "none"
    /\ opsLeft > 0
    /\ opsLeft' = opsLeft - 1
    /\ Enter(c, "acquire", prog.path)
    /\ prog' = [prog EXCEPT !.pc = "entering", !.left = FALSE,
                            !.frames = Append(@, LockDepth(redis, prog.path))]

\* acquire() returned and the body of the scope starts; or it raised, and
\* the exception leaves the with statement without __exit__.
ScopeEntered(c) ==
    /\ prog.kind = "scope"
    /\ prog.pc = "entering"
    /\ cl[c].pc = "idle"
    /\ prog' = IF cl[c].ret = "None"
               THEN [prog EXCEPT !.pc = "body"]
               ELSE [prog EXCEPT !.frames = SubSeq(@, 1, Len(@) - 1),
                                 !.exc = cl[c].ret,
                                 !.pc = IF Len(prog.frames) = 1 THEN "out" ELSE "body"]
    /\ UNCHANGED <<redis, watching, dirty, lockCfg, cl, opsLeft, hist>>

\* The scope left with its frame dropped and no call made.
ScopeDropped(c, exc) ==
    /\ prog' = [prog EXCEPT !.frames = SubSeq(@, 1, Len(@) - 1),
                            !.before = prog.frames[Len(prog.frames)],
                            !.left = TRUE,
                            !.exc = exc,
                            !.pc = IF Len(prog.frames) = 1 THEN "out" ELSE "body"]
    /\ UNCHANGED <<redis, watching, dirty, lockCfg, cl, opsLeft, hist>>

\* ScopeLeave that calls release() only when the body ended normally.
ScopeLeaveNoReleaseOnError(c, raising) ==
    /\ prog.kind = "scope"
    /\ prog.pc = "body"
    /\ cl[c].pc = "idle"
    /\ prog.exc # "none" => raising
    /\ IF raising
       THEN ScopeDropped(c, IF prog.exc = "none" THEN "KeyError" ELSE prog.exc)
       ELSE /\ Enter(c, "release", prog.path)
            /\ prog' = [prog EXCEPT !.pc = "exiting", !.left = FALSE]
            /\ UNCHANGED opsLeft

\* The body of the innermost scope ends, normally or (raising) by an
\* exception of its own or of an inner scope: __exit__, lock.py:186-187
\* (proxy.py:172-173), calls release() either way.
ScopeLeave(c, raising) ==
    /\ prog.kind = "scope"
    /\ prog.pc = "body"
    /\ cl[c].pc = "idle"
    /\ prog.exc # "none" => raising
    /\ Enter(c, "release", prog.path)
    /\ prog' = [prog EXCEPT !.pc = "exiting", !.left = FALSE,
                            !.exc = IF raising /\ @ = "none" THEN "KeyError" ELSE @]
    /\ UNCHANGED opsLeft

\* release() returned: the scope is left. __exit__ returns None, so an
\* exception of the body goes on to the enclosing scope; an exception of
\* release() takes its place.
ScopeLeft(c) ==
    /\ prog.kind = "scope"
    /\ prog.pc = "exiting"
    /\ cl[c].pc = "idle"
    /\ ScopeDropped(c, IF cl[c].ret # "None" THEN cl[c].ret ELSE prog.exc)

NextScope ==
    \/ ScopeEnter(SoloClient)
    \/ ScopeEntered(SoloClient)
    \/ \E raising \in BOOLEAN : ScopeLeave(SoloClient, raising)
    \/ ScopeLeft(SoloClient)
    \/ LockStep
    \/ Tick

SpecScope == InitScope /\ [][NextScope]_vars

\* C12: a scope acquires on entry and releases on every way out: when a
\* scope has just been left, by the end of its body or by an exception, and
\* no lock key expired meanwhile, the depth of the lock is what it was before
\* the scope was entered.
C12_ScopeRestoresDepth ==
    (prog.left /\ ~hist.expired) => LockDepth(redis, prog.path) = prog.before

\* An inner scope was left by an exception and the lock is still held once,
\* for the outer scope.
C12_Witness ==
    /\ prog.left
    /\ ~hist.expired
    /\ prog.exc = "KeyError"
    /\ Len(prog.frames) = 1
    /\ prog.before = 1
    /\ LockDepth(redis, prog.path) = 1

\* --------------------------------------------- clients that also ask is_locked

AllOps == Ops \cup {"is_locked"}

InitLocked ==
    /\ Start(EmptyDb)
    /\ opsLeft = MaxOps
    /\ prog = [kind |-> "free"]
    /\ hist = NoHistory(TRUE, FALSE)

NextLocked ==
    \/ \E c \in Clients, o \in AllOps, k \in LockPaths : Call(c, o, k)
    \/ LockStep
    \/ \E c \in Clients : IsLockedBody(c)
    \/ Tick

SpecLocked == InitLocked /\ [][NextLocked]_vars

\* The step on which is_locked() of client c returns, with no key of its
\* chain written, deleted or expired since the call watched the chain.
IsLockedReturnsQuiet(c) ==
    /\ cl[c].pc = "exec"
    /\ cl[c].op = "is_locked"
    /\ cl'[c].pc = "idle"
    /\ ~dirty[c]
    /\ ~hist.expired

\* C13: is_locked() on P returns True when some key of P's chain exists,
\* whoever holds it, and False when none does (the chain being left alone
\* during the call), and no step of it changes a key, a depth or a TTL.
C13_IsLockedReadsChain ==
    [][\A c \in Clients :
          /\ (cl[c].op = "is_locked" /\ StepOf(c)) => redis' = redis
          /\ IsLockedReturnsQuiet(c) =>
                cl'[c].ret = IF \E k \in Chain(cl[c].key) : Held(k)
                             THEN "True" ELSE "False"]_vars

\* is_locked() on l:.a.b has returned True to a client that owns nothing:
\* the other client holds the parent l:.a.
C13_Witness ==
    \E c \in Clients :
        /\ cl[c].pc = "idle"
        /\ cl[c].ret = "True"
        /\ ~hist.expired
        /\ \A k \in LockKeys : ~Owns(c, k)
        /\ Held(<<LOCK_TREE_PREFIX, "a">>)
        /\ ~Held(<<LOCK_TREE_PREFIX, "a", "b">>)
        /\ opsLeft = MaxOps - 2

\* ------------------------------------------------------------ value proxies

\* Number of proxy operations the client of SpecValues may make.
MaxValOps == 2

\* json.dumps of a value that is no dict.
json_dumps(v) == IF v.kind = "None" THEN <<"n", "u", "l", "l">> ELSE JsonDumps(v.n)

\* json.loads of a stored text.
json_loads(s) == IF s = <<"n", "u", "l", "l">> THEN PyNone ELSE PyNum(JsonLoads(s))

\* The characters of a path element; every element but the prefixes and
\* "ax" is one character.
ElemChars(e) ==
    CASE e = LOCK_TREE_PREFIX -> <<"l", ":">>
      [] e = VAL_TREE_PREFIX -> <<"v", ":">>
      [] e = "ax" -> <<"a", "x">>
      [] OTHER -> <<e>>

\* '.'.join(key): the text of a key as the server stores it.
RECURSIVE KeyText(_)
KeyText(k) ==
    IF k = <<>> THEN <<>>
    ELSE IF Len(k) = 1 THEN ElemChars(k[1])
    ELSE KeyText(SubSeq(k, 1, Len(k) - 1)) \o <<".">> \o ElemChars(k[Len(k)])

\* text.startswith(prefix)
StartsWith(text, prefix) ==
    Len(text) >= Len(prefix) /\ SubSeq(text, 1, Len(prefix)) = prefix

\* A match of the pattern full_key + "*", without the dot.
MatchesNamePrefix(k, full_key) == StartsWith(KeyText(k), KeyText(full_key))

\* The key matches the pattern full_key + ".*": its text starts with the
\* text of full_key and a dot (the keys here hold no character that is
\* special in a pattern).
MatchesText(k, full_key) == StartsWith(KeyText(k), KeyText(full_key) \o <<".">>)

\* For every key the keys whose pattern it matches.
MatchTable == [k \in Keys |-> {f \in Keys : MatchesText(k, f)}]

Matches(k, full_key) ==
    IF k \in Keys /\ full_key \in Keys THEN full_key \in MatchTable[k]
    ELSE MatchesText(k, full_key)

\* conn.scan_iter(full_key + ".*"): the existing keys below full_key.
ScanBelow(db, full_key) == {k \in Keys : db[k] # Nil /\ Matches(k, full_key)}

\* proxy._get_sub_keys, proxy.py:90-100: the scanned keys and then full_key
\* itself, existing or not.
get_sub_keys(db, full_key) == ScanBelow(db, full_key) \cup {full_key}

\* The orders in which a scan can deliver the keys ks.
RECURSIVE Orders(_)
Orders(ks) ==
    IF ks = {} THEN {<<>>}
    ELSE UNION {{<<k>> \o o : o \in Orders(ks \ {k})} : k \in ks}

\* _Proxy.clear, proxy.py:200-203.
proxy_clear(db, full_key) ==
    [k \in Keys |-> IF k \in get_sub_keys(db, full_key) THEN Nil ELSE db[k]]

\* An exists() that also counts the keys below full_key.
proxy_exists_subtree(db, full_key) ==
    db[full_key] # Nil \/ ScanBelow(db, full_key) # {}

\* _Proxy.exists, proxy.py:205-207.
proxy_exists(db, full_key) == db[full_key] # Nil

\* _Proxy.val, proxy.py:285-294: the dict fed with the scanned keys in the
\* order the scan delivers them.
RECURSIVE Reassemble(_, _, _, _)
Reassemble(db, full_key, order, nested) ==
    IF order = <<>> THEN nested
    ELSE LET redis_key == Head(order)
             sub_key == SubSeq(redis_key, Len(full_key) + 1, Len(redis_key))
         IN  Reassemble(db, full_key, Tail(order),
                        feed_to_nested(nested, sub_key, json_loads(db[redis_key].val)))

\* proxy_val that returns None, whatever default is, when nothing is stored.
proxy_val_no_default(db, full_key, default) ==
    IF db[full_key] # Nil THEN {json_loads(db[full_key].val)}
    ELSE { IF nested = NoItems THEN PyNone ELSE PyDict(nested) :
             nested \in {Reassemble(db, full_key, order, NoItems) :
                           order \in Orders(ScanBelow(db, full_key))} }

\* _Proxy.val, proxy.py:273-303: the values val(default) can return, one
\* for every order of the scan.
proxy_val(db, full_key, default) ==
    IF db[full_key] # Nil THEN {json_loads(db[full_key].val)}
    ELSE { IF nested = NoItems
           THEN (IF default = PyNone /\ ~proxy_exists(db, full_key)
                 THEN PyNone ELSE default)
           ELSE PyDict(nested) :
             nested \in {Reassemble(db, full_key, order, NoItems) :
                           order \in Orders(ScanBelow(db, full_key))} }

\* for full_key, value in items: conn.set(full_key, json.dumps(value)),
\* proxy.py:258-259 (the leaves of one mapping have different keys).
SetItems(db, items) ==
    [k \in Keys |->
        IF \E kv \in items : kv[1] = k
        THEN [val |-> json_dumps((CHOOSE kv \in items : kv[1] = k)[2]), ttl |-> NoTTL]
        ELSE db[k]]

\* _Proxy.set, proxy.py:231-261, without expire: the parents of the key are
\* deleted; a dict replaces the subtree at the key by its leaves, any other
\* value is stored under the key.
proxy_set(db, full_key, value) ==
    LET cleared == clear_parents(db, Tail(build_key_hierarchy(full_key))) IN
    IF value.kind = "dict"
    THEN SetItems(proxy_clear(cleared, full_key), extract_keys(value.items, full_key))
    ELSE RedisSet(cleared, full_key, json_dumps(value))

\* An add() that stores count, whatever is stored.
proxy_add_overwrite(db, full_key, count) ==
    [db |-> RedisSet(db, full_key, JsonDumps(count)), ret |-> PyNum(count), exc |-> "none"]

\* _Proxy.add, proxy.py:305-317: the server afterwards, the value returned
\* and the exception raised (None + count is a TypeError).
proxy_add(db, full_key, count) ==
    LET old == IF proxy_exists(db, full_key)
               THEN CHOOSE v \in proxy_val(db, full_key, PyNone) : TRUE
               ELSE PyNum(0)
        new_val == PyNum(old.n + count)
    IN  IF old.kind # "int"
        THEN [db |-> db, ret |-> PyNone, exc |-> "TypeError"]
        ELSE [db |-> RedisSet(db, full_key, json_dumps(new_val)),
              ret |-> new_val, exc |-> "none"]

\* _Proxy.expire, proxy.py:319-328.
proxy_expire(db, full_key, seconds) ==
    [k \in Keys |->
        IF k \in get_sub_keys(db, full_key) THEN RedisExpire(db, k, seconds)[k]
        ELSE db[k]]

\* The defaults passed to val(), the count passed to add() and the seconds
\* passed to expire().
Defaults == {PyNone, PyNum(2)}

AddCounts == {1}

ExpireArgs == {2}

\* The sub-paths of the proxies operated on: get(s) for s in SubPaths, or
\* the proxy itself.
OwnOrSub == SubPaths \cup {<<>>}

\* What the client did last: the operation, the proxy's path, the sub-path,
\* the argument, what was returned or raised, and the keys the call removed.
LastOp(op, path, sub, arg, ret, exc) ==
    [op |-> op, path |-> path, sub |-> sub, arg |-> arg, ret |-> ret, exc |-> exc,
     removed |-> {}]

\* One client with an empty server, as after root_prox.clear().
InitValues ==
    /\ Start(EmptyDb)
    /\ lockCfg.acquire_timeout = PyInt(0)
    /\ opsLeft = MaxValOps
    /\ prog = [kind |-> "values", last |-> LastOp("none", <<>>, <<>>, PyNone, PyNone, "none")]
    /\ hist = NoHistory(FALSE, FALSE)

\* The client makes one call, which leaves the server as db.
ValOp(db, last) ==
    /\ prog.kind = "values"
    /\ opsLeft > 0
    /\ opsLeft' = opsLeft - 1
    /\ redis' = db
    /\ prog' = [prog EXCEPT !.last =
                   [last EXCEPT !.removed = {k \in Keys : redis[k] # Nil /\ db[k] = Nil}]]
    /\ UNCHANGED <<watching, dirty, lockCfg, cl, hist>>

\* proxy.set(s, value)
ValSet(p, s, value) ==
    ValOp(proxy_set(redis, FullKey(p, s), value),
          LastOp("set", p, s, value, PyNone, "none"))

\* proxy.delete(s), proxy.py:209-215: get(s).clear().
ValDelete(p, s) ==
    ValOp(proxy_clear(redis, FullKey(p, s)),
          LastOp("delete", p, s, PyNone, PyNone, "none"))

\* proxy.clear() or proxy.get(s).clear()
ValClear(p, s) ==
    ValOp(proxy_clear(redis, FullKey(p, s)),
          LastOp("clear", p, s, PyNone, PyNone, "none"))

\* proxy.add(n) or proxy.get(s).add(n)
ValAdd(p, s, n) ==
    LET r == proxy_add(redis, FullKey(p, s), n) IN
    ValOp(r.db, LastOp("add", p, s, PyNum(n), r.ret, r.exc))

\* proxy.expire(seconds) or proxy.get(s).expire(seconds)
ValExpire(p, s, seconds) ==
    ValOp(proxy_expire(redis, FullKey(p, s), seconds),
          LastOp("expire", p, s, PyNum(seconds), PyNone, "none"))

\* proxy.val(default) or proxy.get(s).val(default)
ValVal(p, s, default) ==
    \E ret \in proxy_val(redis, FullKey(p, s), default) :
        ValOp(redis, LastOp("val", p, s, default, ret, "none"))

\* proxy.exists() or proxy.get(s).exists()
ValExists(p, s) ==
    ValOp(redis, LastOp("exists", p, s, PyNone,
                        PyBool(proxy_exists(redis, FullKey(p, s))), "none"))

NextValues ==
    \/ \E p \in ProxyPaths, s \in SubPaths, v \in Scalars \cup Mappings : ValSet(p, s, v)
    \/ \E p \in ProxyPaths, s \in SubPaths : ValDelete(p, s)
    \/ \E p \in ProxyPaths, s \in OwnOrSub : ValClear(p, s)
    \/ \E p \in ProxyPaths, s \in OwnOrSub, n \in AddCounts : ValAdd(p, s, n)
    \/ \E p \in ProxyPaths, s \in OwnOrSub, secs \in ExpireArgs : ValExpire(p, s, secs)
    \/ \E p \in ProxyPaths, s \in OwnOrSub, d \in Defaults : ValVal(p, s, d)
    \/ \E p \in ProxyPaths, s \in OwnOrSub : ValExists(p, s)
    \/ Tick

SpecValues == InitValues /\ [][NextValues]_vars

\* The key the client's last call addressed.
LastKey == FullKey(prog.last.path, prog.last.sub)

\* The last call was a set() of a mapping / of another value.
LastSetMapping == prog.last.op = "set" /\ prog.last.arg.kind = "dict"

LastSetScalar == prog.last.op = "set" /\ prog.last.arg.kind # "dict"

\* A mapping with its empty sub-mappings removed.
RECURSIVE StripEmpty(_)
StripEmpty(items) ==
    LET kept == {k \in DOMAIN items :
                    items[k].kind = "dict" => StripEmpty(items[k].items) # NoItems}
    IN  [k \in kept |-> IF items[k].kind = "dict"
                        THEN PyDict(StripEmpty(items[k].items)) ELSE items[k]]

StrictAncestors(k) == {a \in ValueKeys : IsProperPrefix(a, k)}

\* The value keys strictly below k.
StrictDescendants(k) == {d \in ValueKeys : IsProperPrefix(k, d)}

\* C15: after set(P, v), no value key exists at a strict ancestor of P,
\* the root key v: included; when the set stored a value at P, val() of
\* every ancestor is a mapping reassembled from the keys below it.
C15_SetClearsAncestors ==
    prog.last.op = "set" =>
        \A a \in StrictAncestors(LastKey) :
            /\ redis[a] = Nil
            /\ redis[LastKey] # Nil =>
                  \A r \in proxy_val(redis, a, PyNone) : r.kind = "dict"

\* A set() has removed a value stored at an ancestor of its key.
C15_Witness ==
    /\ prog.last.op = "set"
    /\ prog.last.removed \cap StrictAncestors(LastKey) # {}
    /\ redis[LastKey] # Nil

\* C16: after set(P, v) with a value v that is no mapping, no value key
\* exists at a strict descendant of P.
C16_ScalarSetClearsDescendants ==
    LastSetScalar => \A d \in StrictDescendants(LastKey) : redis[d] = Nil

\* The value keys that exist.
Stored == {k \in ValueKeys : redis[k] # Nil}

\* C17: no two value keys exist of which one is a proper prefix of the
\* other.
C17_OneKeyPerPath ==
    \A k1, k2 \in Stored : ~IsProperPrefix(k1, k2)

\* The value keys at or below k.
AtOrBelow(k) == {k} \cup StrictDescendants(k)

\* The leaves of a mapping written at key k: the key the leaf goes to and
\* its value.
Leaves(k, items) == extract_keys(items, k)

\* C18: after set(s, M) with a mapping M, the value keys at or below s are
\* exactly the leaves of M, each holding the JSON of its leaf, and
\* get(s).val() equals M (a mapping that has a leaf in every sub-mapping).
C18_MappingSetReplacesSubtree ==
    LastSetMapping =>
        LET M == prog.last.arg IN
        /\ Stored \cap AtOrBelow(LastKey) = {kv[1] : kv \in Leaves(LastKey, M.items)}
        /\ \A kv \in Leaves(LastKey, M.items) : redis[kv[1]].val = json_dumps(kv[2])
        /\ (M.items # NoItems /\ StripEmpty(M.items) = M.items) =>
              \A r \in proxy_val(redis, LastKey, PyNone) : r = M

\* The subtree part of C18 alone.
C18_ExactLeaves ==
    LastSetMapping =>
        LET M == prog.last.arg IN
        /\ Stored \cap AtOrBelow(LastKey) = {kv[1] : kv \in Leaves(LastKey, M.items)}
        /\ \A kv \in Leaves(LastKey, M.items) : redis[kv[1]].val = json_dumps(kv[2])

\* The step is a call of op by the client of the value tree; the call is
\* recorded in prog'.last.
CallOf(op) == opsLeft' < opsLeft /\ prog'.last.op = op

\* The key of the call the step makes.
CalledKey == FullKey(prog'.last.path, prog'.last.sub)

\* The stored keys below k that no other stored key below k is a prefix of
\* or continues.
Unrivalled(k) ==
    {d \in Stored \cap StrictDescendants(k) :
        \A e \in Stored \cap StrictDescendants(k) :
            ~IsProperPrefix(d, e) /\ ~IsProperPrefix(e, d)}

C19_DefaultReturned ==
    /\ prog.last.op = "val"
    /\ prog.last.ret = PyNum(2)
    /\ Stored \cap AtOrBelow(LastKey) = {}
    /\ Stored # {}

\* C20: exists() returns true iff a value key exists at exactly K, also
\* when keys below K exist; after a set of a value that is no mapping the
\* key K exists.
C20_ExistsExactKey ==
    [][/\ CallOf("exists") =>
            /\ redis' = redis
            /\ prog'.last.ret = PyBool(redis[CalledKey] # Nil)
       /\ (CallOf("set") /\ prog'.last.arg.kind # "dict") =>
            redis'[CalledKey] # Nil
    ]_vars

\* exists() has returned false on a key with keys stored below it.
C20_Witness ==
    /\ prog.last.op = "exists"
    /\ prog.last.ret = PyBool(FALSE)
    /\ Stored \cap StrictDescendants(LastKey) # {}

\* ---------------------------------------------------------- delete and clear

\* Number of calls the client of SpecDelete makes.
MaxDeleteOps == 3

\* The sub-paths the client of SpecDelete passes to its root proxy: a, its
\* child a.b, and ax, whose name starts with the name of a.
NameSubs == {<<"a">>, <<"ax">>, <<"a", "b">>}

\* A server on which client 1 holds the lock of path a.
LockedDbs ==
    {[EmptyDb EXCEPT ![WorkerLockKey] = [val |-> build_lock_token(SoloClient, 1), ttl |-> t]]
        : t \in ExpireTimeouts}

InitDelete ==
    /\ \E db \in {EmptyDb} \cup LockedDbs : Start(db)
    /\ lockCfg.acquire_timeout = PyInt(0)
    /\ opsLeft = MaxDeleteOps
    /\ prog = [kind |-> "values", last |-> LastOp("none", <<>>, <<>>, PyNone, PyNone, "none")]
    /\ hist = NoHistory(FALSE, FALSE)

NextDelete ==
    \/ \E s \in NameSubs, v \in Scalars : ValSet(<<>>, s, v)
    \/ \E s \in NameSubs : ValDelete(<<>>, s)
    \/ \E s \in NameSubs : ValClear(<<>>, s)
    \/ Tick

SpecDelete == InitDelete /\ [][NextDelete]_vars

\* C21: after delete(s), and after get(s).clear(), no value key exists at
\* or below P.s and get(s).val() returns None; every other value key and
\* every lock key is as it was.
C21_DeleteFrame ==
    [][(CallOf("delete") \/ CallOf("clear")) =>
         /\ \A k \in AtOrBelow(CalledKey) : redis'[k] = Nil
         /\ proxy_val(redis', CalledKey, PyNone) = {PyNone}
         /\ \A k \in Keys \ AtOrBelow(CalledKey) : redis'[k] = redis[k]
    ]_vars

\* delete('a') has removed keys while ax is stored and the lock of a is held.
C21_Witness ==
    /\ prog.last.op = "delete"
    /\ LastKey = FullKey(<<>>, <<"a">>)
    /\ prog.last.removed # {}
    /\ redis[NameKey] # Nil
    /\ redis[WorkerLockKey] # Nil

\* C22: add(n) on an absent key K stores n at K, without expiry, and
\* returns n; on a key that holds a number v it stores and returns v + n;
\* so each add(1) that follows an add on the same key returns one more. No
\* other key changes.
C22_AddCounts ==
    [][(CallOf("add") /\ prog'.last.exc = "none") =>
         LET K == CalledKey
             n == prog'.last.arg.n
             r == prog'.last.ret
         IN  /\ redis[K] = Nil => r = PyNum(n)
             /\ redis[K] # Nil => r = PyNum(json_loads(redis[K].val).n + n)
             /\ (prog.last.op = "add" /\ prog.last.exc = "none" /\ LastKey = K) =>
                   r = PyNum(prog.last.ret.n + n)
             /\ redis'[K] = [val |-> IntToStr(r.n), ttl |-> NoTTL]
             /\ proxy_val(redis', K, PyNone) = {r}
             /\ \A k \in Keys \ {K} : redis'[k] = redis[k]
    ]_vars

\* The second call was an add(1) on a key that held 1: it has returned 2
\* and its key is the only one stored.
C22_Witness ==
    /\ prog.last.op = "add"
    /\ prog.last.exc = "none"
    /\ prog.last.ret = PyNum(2)
    /\ Stored = {LastKey}
    /\ opsLeft = 0

\* -------------------------------------------------------------- iter_children

\* Number of calls the client of SpecChildren makes.
MaxChildrenOps == 4

\* The path elements of the keys.
Elems == UNION {SeqToSet(k) : k \in Keys}

\* The path element written with the characters chars.
ElemOf(chars) == CHOOSE e \in Elems : ElemChars(e) = chars

\* A Python list.
PyList(seq) == [kind |-> "list", n |-> 0, items |-> seq]

\* _Registry.proxy_from_registry for a dotted string, proxy.py:49-51: the
\* path of the proxy is path.split(".").
PathOfText(text) ==
    LET parts == Split(text, ".", -1) IN [i \in 1..Len(parts) |-> ElemOf(parts[i])]

\* _Proxy.iter_children, proxy.py:224-229, for one scanned key: the prefix
\* and its dot are cut off and the rest is the dotted path of the proxy
\* yielded; key is what its key() returns, val what its val() returns.
ChildOf(db, redis_key) ==
    LET text == KeyText(redis_key)
        trimmed_key == SubSeq(text, Len(ElemChars(LOCK_TREE_PREFIX)) + 2, Len(text))
        path == PathOfText(trimmed_key)
    IN  [key |-> KeyText(path),
         val |-> CHOOSE v \in proxy_val(db, FullKey(path, <<>>), PyNone) : TRUE]

\* An iter_children that scans with the pattern full_key + "*".
iter_children_name_prefix(db, full_key) ==
    {[i \in 1..Len(order) |-> ChildOf(db, order[i])] :
        order \in Orders({k \in Keys \ {full_key} :
                            db[k] # Nil /\ MatchesNamePrefix(k, full_key)})}

\* _Proxy.iter_children, proxy.py:217-229: the lists it can yield, one for
\* every order of the scan.
iter_children(db, full_key) ==
    {[i \in 1..Len(order) |-> ChildOf(db, order[i])] :
        order \in Orders(ScanBelow(db, full_key))}

InitChildren ==
    /\ Start(EmptyDb)
    /\ lockCfg.acquire_timeout = PyInt(0)
    /\ opsLeft = MaxChildrenOps
    /\ prog = [kind |-> "values", last |-> LastOp("none", <<>>, <<>>, PyNone, PyNone, "none")]
    /\ hist = NoHistory(FALSE, FALSE)

\* [(prx.key(), prx.val()) for prx in proxy.iter_children()]
ValChildren(p) ==
    \E children \in iter_children(redis, FullKey(p, <<>>)) :
        ValOp(redis, LastOp("iter_children", p, <<>>, PyNone, PyList(children), "none"))

NextChildren ==
    \/ \E s \in NameSubs, v \in Scalars : ValSet(<<>>, s, v)
    \/ \E p \in ProxyPaths : ValChildren(p)

SpecChildren == InitChildren /\ [][NextChildren]_vars

MaxConstructions == 3

\* The db_name arguments.
DbNames == {"None", "other"}

\* The ways a proxy is constructed: Proxy(text) and section(text) pass a
\* dotted string, Proxy(elements) and root() a sequence of path elements,
\* parent.get(text) the parent's path extended by text.split('.').
PathTexts == {KeyText(<<"a">>), KeyText(<<"a", "b">>)}

PathSeqs == {<<>>, <<"a">>, <<"a", "b">>}

Constructions ==
    [form : {"text"}, parent : {<<>>}, text : PathTexts, elems : {<<>>}] \cup
    [form : {"elems"}, parent : {<<>>}, text : {<<>>}, elems : PathSeqs] \cup
    [form : {"get"}, parent : {<<>>, <<"a">>}, text : PathTexts, elems : {<<>>}]

\* proxy_from_registry, proxy.py:47-59, and _Proxy.get, proxy.py:270: the
\* tuple of path elements of a construction.
path_elems_tuple(how) ==
    CASE how.form = "text" -> PathOfText(how.text)
      [] how.form = "elems" -> how.elems
      [] how.form = "get" -> how.parent \o PathOfText(how.text)

RegistryPaths == {path_elems_tuple(how) : how \in Constructions}

\* A registry that stores every proxy constructed, replacing the one stored.
dict_overwrite(proxies, key, new) == [proxies EXCEPT ![key] = new]

\* dict.setdefault(key, new): the dict afterwards; 0 is "no entry".
dict_setdefault(proxies, key, new) ==
    IF proxies[key] # 0 THEN proxies ELSE [proxies EXCEPT ![key] = new]

NotConstructing == [pc |-> "idle", db_name |-> "None", path |-> <<>>]

\* _Registry.__init__, proxy.py:33-36: no proxies, the lock is free.
InitRegistry ==
    /\ Start(EmptyDb)
    /\ lockCfg.acquire_timeout = PyInt(0)
    /\ opsLeft = MaxConstructions
    /\ prog = [kind |-> "registry",
               proxies |-> [key \in DbNames \X RegistryPaths |-> 0],
               made |-> 0,
               holder |-> 0,
               th |-> [c \in Clients |-> NotConstructing],
               got |-> {}]
    /\ hist = NoHistory(FALSE, FALSE)

\* proxy_from_registry, proxy.py:47-61: a thread computes the tuple of path
\* elements, outside the lock.
RegistryCall(c, how, db_name) ==
    /\ prog.kind = "registry"
    /\ opsLeft > 0
    /\ prog.th[c].pc = "idle"
    /\ opsLeft' = opsLeft - 1
    /\ prog' = [prog EXCEPT !.th[c] =
                  [pc |-> "lock", db_name |-> db_name, path |-> path_elems_tuple(how)]]
    /\ UNCHANGED <<redis, watching, dirty, lockCfg, cl, hist>>

\* with self._lock, proxy.py:63: the thread gets the lock when it is free.
RegistryLock(c) ==
    /\ prog.kind = "registry"
    /\ prog.th[c].pc = "lock"
    /\ prog.holder = 0
    /\ prog' = [prog EXCEPT !.holder = c, !.th[c].pc = "locked"]
    /\ UNCHANGED <<redis, watching, dirty, lockCfg, cl, opsLeft, hist>>

\* proxy.py:65-68: a new _Proxy is constructed, setdefault stores it when
\* the path has no entry, the entry is returned and the lock released.
RegistryReturn(c) ==
    /\ prog.kind = "registry"
    /\ prog.th[c].pc = "locked"
    /\ LET key == <<prog.th[c].db_name, prog.th[c].path>>
           new == prog.made + 1
           proxies == dict_setdefault(prog.proxies, key, new)
       IN  prog' = [prog EXCEPT !.proxies = proxies,
                                !.made = new,
                                !.holder = 0,
                                !.th[c] = NotConstructing,
                                !.got = @ \cup {<<key[1], key[2], proxies[key]>>}]
    /\ UNCHANGED <<redis, watching, dirty, lockCfg, cl, opsLeft, hist>>

NextRegistry ==
    \/ \E c \in Clients, how \in Constructions, db_name \in DbNames :
         RegistryCall(c, how, db_name)
    \/ \E c \in Clients : RegistryLock(c)
    \/ \E c \in Clients : RegistryReturn(c)

SpecRegistry == InitRegistry /\ [][NextRegistry]_vars

\* C24: for one database name, two constructions return the same instance
\* if and only if their paths are the same.
C24_OneInstancePerPath ==
    \A g1, g2 \in prog.got :
        g1[1] = g2[1] => (g1[2] = g2[2] <=> g1[3] = g2[3])

\* Three proxies were constructed, two instances returned for two paths.
C24_Witness ==
    /\ prog.made = 3
    /\ Cardinality({g[3] : g \in prog.got}) = 2
    /\ Cardinality({g[2] : g \in prog.got}) = 2
    /\ \A g \in prog.got : g[1] = "None"

\* ------------------------------------------------------------ lock timeouts

\* Lock.__init__, lock.py:39: the defaults of expire_timeout and
\* acquire_timeout.
DefaultExpireTimeout == 30

DefaultAcquireTimeout == 10

\* An argument that is passed.
Given(v) == [given |-> TRUE, value |-> v]

\* A parameter left out; unused is a value of the parameter's type.
Omitted(unused) == [given |-> FALSE, value |-> unused]

\* The acquire_timeout arguments: left out, ints below, at and above one,
\* floats below and above one.
AcquireArgs ==
    {Omitted(PyInt(0))} \cup {Given(PyInt(n)) : n \in -2..2}
              \cup {Given(PyFloatHalves(h)) : h \in {-1, 1, 2, 3}}

\* The expire_timeout arguments.
ExpireTimeoutArgs == {Omitted(0)} \cup {Given(n) : n \in -2..3}

\* The value a parameter is bound to.
Bound(arg, default) == IF arg.given THEN arg.value ELSE default

\* A program constructs one Lock with the arguments args and acquires it;
\* lockCfg is what the parameters of Lock.__init__ are bound to.
InitTimeouts ==
    /\ \E a \in AcquireArgs, e \in ExpireTimeoutArgs :
         /\ prog = [kind |-> "timeouts", args |-> [acquire |-> a, expire |-> e],
                    constructed |-> FALSE,
                    seconds |-> [acquire |-> PyInt(0), expire |-> 0]]
         /\ lockCfg = [acquire_timeout |-> Bound(a, PyInt(DefaultAcquireTimeout)),
                       expire_timeout |-> Bound(e, DefaultExpireTimeout)]
    /\ redis = EmptyDb
    /\ watching = [c \in Clients |-> {}]
    /\ dirty = [c \in Clients |-> FALSE]
    /\ cl = [c \in Clients |-> Idle("None")]
    /\ opsLeft = 1
    /\ hist = NoHistory(FALSE, FALSE)

\* Lock.__init__, lock.py:39-47.
LockConstruct ==
    /\ prog.kind = "timeouts"
    /\ ~prog.constructed
    /\ prog' = [prog EXCEPT !.constructed = TRUE,
                            !.seconds = [acquire |-> AcquireSeconds,
                                         expire |-> ExpireSeconds]]
    /\ UNCHANGED <<redis, watching, dirty, lockCfg, cl, opsLeft, hist>>

\* lock.acquire()
TimeoutsAcquire ==
    /\ prog.kind = "timeouts"
    /\ prog.constructed
    /\ opsLeft > 0
    /\ opsLeft' = opsLeft - 1
    /\ Enter(SoloClient, "acquire", WorkerLockKey)
    /\ UNCHANGED prog

NextTimeouts ==
    \/ LockConstruct
    \/ TimeoutsAcquire
    \/ ScanGet(SoloClient)
    \/ AcquirePoll(SoloClient)
    \/ ExecOk(SoloClient)

SpecTimeouts == InitTimeouts /\ [][NextTimeouts]_vars

\* C25: an acquire_timeout or expire_timeout below 1 makes the lock use
\* exactly 1 second, a timeout left out 10 seconds (acquire) and 30 seconds
\* (expire): that is the polling budget of acquire and the expiry of the
\* lock key.
C25_TimeoutsFloored ==
    prog.constructed =>
        /\ (prog.args.acquire.given /\ prog.args.acquire.value.halves < 2) =>
              prog.seconds.acquire = PyInt(1)
        /\ (prog.args.expire.given /\ prog.args.expire.value < 1) =>
              prog.seconds.expire = 1
        /\ ~prog.args.acquire.given => prog.seconds.acquire = PyInt(10)
        /\ ~prog.args.expire.given => prog.seconds.expire = 30
        /\ cl[SoloClient].pc = "body" =>
              cl[SoloClient].retries = PyTimes(prog.seconds.acquire, PollsPerSecond)
        /\ Held(WorkerLockKey) => redis[WorkerLockKey].ttl = prog.seconds.expire

\* A lock constructed with acquire_timeout -0.5 and expire_timeout -2 is
\* held with an expiry of one second.
C25_Witness ==
    /\ prog.constructed
    /\ prog.args.acquire = Given(PyFloatHalves(-1))
    /\ prog.args.expire = Given(-2)
    /\ Held(WorkerLockKey)
    /\ redis[WorkerLockKey].ttl = 1

\* --------------------------------------------------------------- lock tokens

\* Largest lock count of the tokens built for SpecTokens.
MaxTokenCount == 2

\* The parts the token strings are made of: numbers, a word, nothing.
TokenParts == {<<"1">>, <<"2", "3">>, <<"x">>, <<>>}

\* ':'.join(parts)
RECURSIVE JoinColons(_)
JoinColons(parts) ==
    IF Len(parts) = 1 THEN parts[1]
    ELSE parts[1] \o <<":">> \o JoinColons(Tail(parts))

\* The strings passed to parse_lock_token: one to four parts joined with
\* colons, and the tokens build_lock_token makes.
TokenStrings ==
    {JoinColons(parts) : parts \in UNION {[1..n -> TokenParts] : n \in 1..4}}
    \cup {build_lock_token(c, n) : c \in Clients, n \in 1..MaxTokenCount}

InitTokens ==
    /\ Start(EmptyDb)
    /\ lockCfg.acquire_timeout = PyInt(0)
    /\ opsLeft = 1
    /\ \E token \in TokenStrings :
         prog = [kind |-> "tokens", token |-> token, parsed |-> FALSE,
                 result |-> parse_lock_token(<<>>)]
    /\ hist = NoHistory(FALSE, FALSE)

\* parse_lock_token(token)
ParseToken ==
    /\ prog.kind = "tokens"
    /\ ~prog.parsed
    /\ prog' = [prog EXCEPT !.parsed = TRUE, !.result = parse_lock_token(prog.token)]
    /\ UNCHANGED <<redis, watching, dirty, lockCfg, cl, opsLeft, hist>>

NextTokens == ParseToken

SpecTokens == InitTokens /\ [][NextTokens]_vars

\* The token has three parts between its colons and each is an integer.
ThreeIntegers(token) ==
    LET parts == Split(token, ":", -1) IN
    Len(parts) = 3 /\ \A i \in 1..3 : IsIntStr(parts[i])

\* C26: parse_lock_token returns the three integers of "p:t:d", which
\* inverts build_lock_token; every other string fails with InternalError.
C26_ParseOrInternalError ==
    prog.parsed =>
        /\ ThreeIntegers(prog.token) =>
              LET parts == Split(prog.token, ":", -1) IN
              /\ prog.result.err = "none"
              /\ prog.result.pid = StrToInt(parts[1])
              /\ prog.result.tid = StrToInt(parts[2])
              /\ prog.result.lock_count = StrToInt(parts[3])
        /\ \A c \in Clients, n \in 1..MaxTokenCount :
              prog.token = build_lock_token(c, n) =>
                 /\ prog.result.pid = Pid(c)
                 /\ prog.result.tid = Tid(c)
                 /\ prog.result.lock_count = n
        /\ ~ThreeIntegers(prog.token) => prog.result.err = "InternalError"

\* The part of C26 about the strings with fewer than three parts and the
\* well-formed tokens.
C26_ParsesGoodRejectsShort ==
    prog.parsed =>
        /\ ThreeIntegers(prog.token) => prog.result.err = "none"
        /\ Len(Split(prog.token, ":", -1)) < 3 => prog.result.err = "InternalError"

\* --------------------------------------------------------------- time_to_live

\* Number of calls the client of SpecTTL makes.
MaxTTLOps == 3

\* _Proxy.time_to_live, proxy.py:330-341: the values it can return, one for
\* every key the scan can deliver first. _get_sub_keys yields full_key after
\* the scanned keys, so next() always has a key and StopIteration is never
\* raised; TTL of an absent key is -2.
proxy_time_to_live(db, full_key) ==
    LET firsts == IF ScanBelow(db, full_key) # {} THEN ScanBelow(db, full_key)
                  ELSE {full_key}
    IN  {PyNum(db[first_redis_key].ttl) : first_redis_key \in firsts}

InitTTL ==
    /\ Start(EmptyDb)
    /\ lockCfg.acquire_timeout = PyInt(0)
    /\ opsLeft = MaxTTLOps
    /\ prog = [kind |-> "values", last |-> LastOp("none", <<>>, <<>>, PyNone, PyNone, "none")]
    /\ hist = NoHistory(FALSE, FALSE)

\* proxy.time_to_live() or proxy.get(s).time_to_live()
ValTimeToLive(p, s) ==
    \E ret \in proxy_time_to_live(redis, FullKey(p, s)) :
        ValOp(redis, LastOp("time_to_live", p, s, PyNone, ret, "none"))

NextTTL ==
    \/ \E s \in SubPaths, v \in Scalars : ValSet(<<>>, s, v)
    \/ \E s \in OwnOrSub, secs \in ExpireArgs : ValExpire(<<>>, s, secs)
    \/ \E s \in OwnOrSub : ValTimeToLive(<<>>, s)
    \/ Tick

SpecTTL == InitTTL /\ [][NextTTL]_vars

\* time_to_live() returns the TTL of a key the scan of the subtree can
\* deliver first: a stored key below K, or K when there is none.
ReturnsFirstTTL ==
    LET below == Stored \cap StrictDescendants(CalledKey)
        firsts == IF below # {} THEN below ELSE {CalledKey}
    IN  \E k \in firsts : prog'.last.ret = PyNum(redis[k].ttl)

\* C27: time_to_live() returns None when no value key exists at or below
\* K, and the TTL of the first key of the subtree scan otherwise.
C27_TimeToLive ==
    [][CallOf("time_to_live") =>
         IF Stored \cap AtOrBelow(CalledKey) = {}
         THEN prog'.last.ret = PyNone
         ELSE ReturnsFirstTTL
    ]_vars

\* The part of C27 about the keys that exist.
C27_StoredKeys ==
    [][(CallOf("time_to_live") /\ Stored \cap AtOrBelow(CalledKey) # {}) => ReturnsFirstTTL
    ]_vars

\* The key the acquire of client c is about to write with its EXEC.
WrittenKey(c) == cl[c].stack[1].key

\* C28: an acquire that succeeds on a target key that is absent at the
\* moment of its write writes a token of depth 1 with the caller's pid and
\* thread ident.
C28_FreshLockHasDepthOne ==
    [][\A c \in Clients :
          (AcquireCompletes(c) /\ redis[WrittenKey(c)] = Nil) =>
              /\ redis'[WrittenKey(c)] # Nil
              /\ redis'[WrittenKey(c)].val = build_lock_token(c, 1)]_vars

\* C29: a release step that leaves a lock key in place leaves its owner
\* (pid, thread ident) as stored, and when it rewrites the token the depth
\* is one less than the depth stored.
C29_ReleaseKeepsOwner ==
    [][\A c \in Clients :
          (cl[c].op = "release" /\ StepOf(c)) =>
              \A k \in LockKeys :
                  (Held(k) /\ redis'[k] # Nil) =>
                      /\ TokenOf(redis', k).pid = TokenOf(redis, k).pid
                      /\ TokenOf(redis', k).tid = TokenOf(redis, k).tid
                      /\ redis'[k].val # redis[k].val =>
                            TokenOf(redis', k).lock_count = TokenOf(redis, k).lock_count - 1]_vars

\* --------------------------------------------------------------- nested locks

\* Number of calls the owner and the foreign thread of SpecNested make, all
\* together.
MaxNestedOps == 5

\* The owner O and the foreign thread F of SpecNested; A is the path O holds
\* first and P its descendant.
Owner == SoloClient

Foreign == 2

AncestorKey == WorkerLockKey

DescendantKey == AncestorKey \o <<"b">>

\* O has made no call yet; calls counts the acquires of O that returned minus
\* the releases of O that returned, pending is the call O is in.
InitNested ==
    /\ Start(EmptyDb)
    /\ opsLeft = MaxNestedOps
    /\ prog = [kind |-> "nested", acquired |-> 0, pending |-> "none", done |-> FALSE]
    /\ hist = NoHistory(TRUE, FALSE)

\* sec['a.b'].acquire(), sec['a.b.c'].acquire(), and the releases: the owner
\* acquires A first, then acquires and releases A and P in any order, never
\* releasing more often than it acquired, until it holds nothing.
OwnerCall(o, k) ==
    /\ prog.kind = "nested"
    /\ prog.pending = "none"
    /\ ~prog.done
    /\ opsLeft > 0
    /\ prog.acquired = 0 => (o = "acquire" /\ k = AncestorKey)
    /\ o = "release" => prog.acquired > 0
    /\ opsLeft' = opsLeft - 1
    /\ Enter(Owner, o, k)
    /\ prog' = [prog EXCEPT !.pending = o]

\* The call of the owner has returned or raised.
OwnerReturned ==
    /\ prog.kind = "nested"
    /\ prog.pending # "none"
    /\ cl[Owner].pc = "idle"
    /\ LET acquired == IF prog.pending = "release" THEN prog.acquired - 1
                       ELSE IF cl[Owner].ret = "None" THEN prog.acquired + 1
                       ELSE prog.acquired
       IN  prog' = [prog EXCEPT !.pending = "none",
                                !.acquired = acquired,
                                !.done = (acquired = 0)]
    /\ UNCHANGED <<redis, watching, dirty, lockCfg, cl, opsLeft, hist>>

\* The thread of test_nested_locking: acquire() of a path below A, called
\* while the owner holds its lock.
ForeignCall ==
    /\ prog.kind = "nested"
    /\ prog.acquired > 0
    /\ prog.pending = "none"
    /\ opsLeft > 0
    /\ opsLeft' = opsLeft - 1
    /\ Enter(Foreign, "acquire", DescendantKey)
    /\ UNCHANGED prog

NextNested ==
    \/ \E o \in Ops, k \in {AncestorKey, DescendantKey} : OwnerCall(o, k)
    \/ OwnerReturned
    \/ ForeignCall
    \/ LockStep
    \/ Tick

SpecNested == InitNested /\ [][NextNested]_vars

\* The release of client c completes with commands queued.
ReleaseCompletes(c) ==
    /\ cl[c].pc = "exec"
    /\ cl[c].op = "release"
    /\ cl[c].stack # <<>>
    /\ cl'[c].pc = "idle"

\* The acquires of the owner that have completed and are not yet released:
\* prog.acquired, corrected by the call that has completed on the server and
\* has not returned yet.
Outstanding ==
    IF prog.pending = "none" \/ cl[Owner].pc # "idle" THEN prog.acquired
    ELSE IF prog.pending = "release" THEN prog.acquired - 1
    ELSE IF cl[Owner].ret = "None" THEN prog.acquired + 1
    ELSE prog.acquired

\* An acquire of the owner on A or P, with A held by the owner, creates no
\* key at P, adds one to the depth at A and refreshes the TTL of A.
NestedAcquireCounts ==
    (AcquireCompletes(Owner) /\ Owns(Owner, AncestorKey)) =>
        /\ redis'[DescendantKey] = redis[DescendantKey]
        /\ redis'[AncestorKey] =
             [val |-> build_lock_token(Owner, TokenOf(redis, AncestorKey).lock_count + 1),
              ttl |-> ExpireSeconds]

\* A release of the owner on A or P, with A held by the owner, takes one
\* from the depth at A (the key is gone when the depth was 1).
NestedReleaseCounts ==
    (ReleaseCompletes(Owner) /\ Owns(Owner, AncestorKey)) =>
        /\ redis'[DescendantKey] = redis[DescendantKey]
        /\ redis'[AncestorKey] =
             IF TokenOf(redis, AncestorKey).lock_count = 1 THEN Nil
             ELSE [val |-> build_lock_token(Owner, TokenOf(redis, AncestorKey).lock_count - 1),
                   ttl |-> ExpireSeconds]

\* While no lock key has expired, an acquire of the foreign thread below A
\* completes only when the owner has released as often as it acquired.
ForeignWaitsForAllReleases ==
    (AcquireCompletes(Foreign) /\ ~hist.expired) => Outstanding = 0

\* C30: an acquire of a descendant P by the owner of A creates no key at P,
\* adds one to the depth at A and refreshes its TTL; the matching release
\* takes one from the depth at A; a foreign acquirer below A stays blocked
\* until the owner has released as many times as it acquired, in whatever
\* order over A and P.
C30_NestedCountsOnAncestor ==
    [][NestedAcquireCounts /\ NestedReleaseCounts /\ ForeignWaitsForAllReleases]_vars

\* The same three properties, for steps before any lock key has expired and
\* with an integer acquire_timeout.
C30_WithoutExpiryOrFloat ==
    [][(~hist'.expired /\ ~lockCfg.acquire_timeout.float) =>
           (NestedAcquireCounts /\ NestedReleaseCounts /\ ForeignWaitsForAllReleases)]_vars

\* ------------------------------------------------------- tokens stay valid

\* Every existing lock key holds a token of three integers with depth >= 1.
TokensValid(db) ==
    \A k \in LockKeys :
        db[k] # Nil =>
            /\ parse_lock_token(db[k].val).err = "none"
            /\ parse_lock_token(db[k].val).lock_count >= 1

\* C31: in every state reached through acquire, release and TTL expiry every
\* existing lock key holds a token that parses as (pid, tid, depth) with
\* depth >= 1, and every release() that returns has raised nothing.
C31_TokensValidReleaseNeverRaises ==
    [][/\ TokensValid(redis')
       /\ \A c \in Clients :
            (cl[c].op = "release" /\ cl'[c].pc = "idle") => cl'[c].ret = "None"]_vars

\* A release has read a token of depth 2 or more and queued the token of one
\* less, while a lock key holds a depth of 2 or more.
C31_Witness ==
    /\ \E c \in Clients :
         /\ cl[c].op = "release"
         /\ cl[c].pc = "exec"
         /\ \E i \in 1..Len(cl[c].stack) : cl[c].stack[i].cmd = "SET"
    /\ \E k \in LockKeys : Held(k) /\ TokenOf(redis, k).lock_count >= 2

\* ------------------------------------------ acquire and a foreign holder

\* The step is the last read of an acquire of client c that goes on to queue
\* its write: the read that ends the polling loop without LockTimeout.
LastReadBeforeWrite(c) ==
    /\ cl[c].pc = "body"
    /\ cl[c].op = "acquire"
    /\ cl'[c].pc = "exec"

\* The key is absent or carries the identity of client c.
AbsentOrOwn(c, k) == ~Held(k) \/ Owns(c, k)

\* The EXEC of an acquire of client c writes a key that is absent or the
\* client's own. The WATCH makes the key at EXEC the one the last read saw,
\* unless it expired in between.
WritesAbsentOrOwn(c) ==
    (AcquireCompletes(c) /\ cl[c].stack # <<>>) => AbsentOrOwn(c, WrittenKey(c))

\* C32: an acquire writes only a lock key that, at its last read of it, was
\* absent or carried the caller's own (pid, tid); it never replaces the token
\* of a foreign owner, whatever acquire_timeout is, integer or fractional,
\* and also when the polling budget runs out.
C32_AcquireNeverReplacesForeign ==
    [][\A c \in Clients : WritesAbsentOrOwn(c)]_vars

\* The same property, and the one on the last read, for locks built with an
\* integer acquire_timeout.
C32_WithIntegerTimeout ==
    [][\A c \in Clients :
          ~lockCfg.acquire_timeout.float =>
              /\ LastReadBeforeWrite(c) => AbsentOrOwn(c, cl[c].target)
              /\ WritesAbsentOrOwn(c)]_vars

\* ------------------------------------------------------ release terminates

\* The steps of the Lock method client c is in: its thread runs whenever it
\* can (no step of a method waits for another client; the sleep of the
\* polling loop ends by itself).
ClientStep(c) ==
    \/ ScanGet(c)
    \/ AcquirePoll(c)
    \/ ReleaseBody(c)
    \/ ExecOk(c)
    \/ ExecWatchError(c)

\* Number of lock operations the clients of SpecFair may start, all together.
MaxFairOps == 2

InitFair ==
    /\ Start(EmptyDb)
    /\ opsLeft = MaxFairOps
    /\ prog = [kind |-> "free"]
    /\ hist = NoHistory(FALSE, FALSE)

\* The clients of Spec, each thread scheduled again and again.
SpecFair == InitFair /\ [][Next]_vars /\ \A c \in Clients : WF_vars(ClientStep(c))

\* _release reads the target once and goes on to EXEC or returns: it has no
\* loop and no sleep.
ReleaseNeverWaits(c) ==
    (cl[c].op = "release" /\ cl[c].pc = "body" /\ StepOf(c)) =>
        /\ cl'[c].pc \in {"exec", "idle"}
        /\ redis' = redis

\* A release whose EXEC is invalidated writes nothing and starts again from a
\* fresh WATCH of its chain.
InvalidatedPassWritesNothing(c) ==
    (cl[c].op = "release" /\ cl[c].pc = "exec" /\ dirty[c] /\ cl[c].stack # <<>>
        /\ StepOf(c)) =>
        /\ redis' = redis
        /\ cl'[c].pc = "scan"
        /\ cl'[c].idx = 1
        /\ cl'[c].op = "release"
        /\ cl'[c].key = cl[c].key
        /\ watching'[c] = Chain(cl[c].key)
        /\ ~dirty'[c]

\* A release whose watched keys nobody touched since its WATCH completes at
\* its EXEC, in the pass it is in.
UndisturbedPassCompletes(c) ==
    (cl[c].op = "release" /\ ~dirty[c] /\ StepOf(c)) =>
        \/ cl[c].pc = "scan" /\ cl'[c].pc \in {"scan", "body"}
        \/ cl[c].pc = "body" /\ cl'[c].pc \in {"exec", "idle"}
        \/ cl[c].pc = "exec" /\ cl'[c].pc = "idle" /\ cl'[c].ret = "None"

\* C33: release() never polls or waits for a foreign holder and terminates:
\* a release whose EXEC is invalidated by a write to a watched key writes
\* nothing in that pass and starts again from a fresh WATCH, a pass that
\* nobody disturbs completes, and every release() returns in the end.
C33_ReleaseTerminates ==
    /\ [][\A c \in Clients : /\ ReleaseNeverWaits(c)
                             /\ InvalidatedPassWritesNothing(c)
                             /\ UndisturbedPassCompletes(c)]_vars
    /\ \A c \in Clients : (cl[c].op = "release") ~> (cl[c].pc = "idle")

\* A release has queued its commands and a touch of a key of its chain has
\* invalidated its WATCH.
C33_Witness ==
    \E c \in Clients :
        /\ cl[c].op = "release"
        /\ cl[c].pc = "exec"
        /\ cl[c].stack # <<>>
        /\ dirty[c]

\* ------------------------------------------------- a waiter gets the lock

\* The acquire of client c that completes has slept on a foreign holder.
WaiterCompletes(c) == AcquireCompletes(c) /\ hist.polls[c] > 0

\* A waiter whose acquire completes before any budget ran out holds the key
\* it wrote with depth 1.
WaiterHoldsWithDepthOne(c) ==
    (WaiterCompletes(c) /\ ~hist.exhausted) =>
        /\ cl[c].stack # <<>>
        /\ redis'[WrittenKey(c)].val = build_lock_token(c, 1)

\* An acquire raises LockTimeout only when a polling budget ran out.
TimeoutOnlyWhenExhausted(c) ==
    (cl[c].op = "acquire" /\ cl'[c].pc = "idle" /\ cl'[c].ret = "LockTimeout") =>
        hist'.exhausted

\* C34: a foreign acquirer that waits on P while the holder releases as often
\* as it acquired, or the key expires, before the waiter's budget runs out
\* succeeds (it does not end in LockTimeout), and is then the holder with
\* depth 1.
C34_WaiterSucceedsWithDepthOne ==
    [][\A c \in Clients : WaiterHoldsWithDepthOne(c) /\ TimeoutOnlyWhenExhausted(c)]_vars

\* The same for the steps before any lock key has expired.
C34_WhenNothingExpired ==
    [][\A c \in Clients : /\ ~hist'.expired => WaiterHoldsWithDepthOne(c)
                          /\ TimeoutOnlyWhenExhausted(c)]_vars

\* Every acquire() returns or raises in the end.
C34_AcquireReturns ==
    \A c \in Clients : (cl[c].op = "acquire") ~> (cl[c].pc = "idle")

\* ------------------------------------------------- re-entrant acquire

\* Client c is in acquire(P) and holds the lock at P or at an ancestor of P.
ReentrantAcquire(c) ==
    /\ cl[c].op = "acquire"
    /\ \E k \in Chain(cl[c].key) : Owns(c, k)

\* The read of such an acquire ends the loop at once: no sleep and no
\* LockTimeout; and its EXEC, when no watched key was touched, completes it.
ReentrantNeverBlocked(c) ==
    (ReentrantAcquire(c) /\ StepOf(c)) =>
        /\ cl[c].pc = "body" => cl'[c].pc = "exec"
        /\ (cl[c].pc = "exec" /\ ~dirty[c]) => (cl'[c].pc = "idle" /\ cl'[c].ret = "None")

\* C35: an owner that holds the lock at A is never blocked when it acquires
\* a path P at or below A: the acquire succeeds in its first pass that is
\* not invalidated, without polling and without LockTimeout.
C35_ReentrantNeverBlocked ==
    [][\A c \in Clients : ReentrantNeverBlocked(c)]_vars

\* The same property for an acquire whose chain holds no key of another
\* owner.
C35_WithoutForeignKeyInChain ==
    [][\A c \in Clients :
          (cl[c].op = "acquire" /\ \A k \in Chain(cl[c].key) : AbsentOrOwn(c, k)) =>
              ReentrantNeverBlocked(c)]_vars

\* ------------------------------------------------- replaced values

\* Number of calls the client of SpecReplaced makes.
MaxReplacedOps == 4

\* The scalars the client of SpecReplaced stores.
ReplacedValues == {PyNum(1), PyNum(2)}

\* One client with an empty server; prog.replaced holds the pairs <<A, k>> of
\* a key A that was set to a scalar and a key k that was stored below A at
\* that time and has not been written since.
InitReplaced ==
    /\ Start(EmptyDb)
    /\ lockCfg.acquire_timeout = PyInt(0)
    /\ opsLeft = MaxReplacedOps
    /\ prog = [kind |-> "replaced",
               last |-> LastOp("none", <<>>, <<>>, PyNone, PyNone, "none"),
               replaced |-> {}]
    /\ hist = NoHistory(FALSE, FALSE)

\* The client makes one call, which leaves the server as db.
ReplacedOp(db, last, replaced) ==
    /\ prog.kind = "replaced"
    /\ opsLeft > 0
    /\ opsLeft' = opsLeft - 1
    /\ redis' = db
    /\ prog' = [kind |-> "replaced", last |-> last, replaced |-> replaced]
    /\ UNCHANGED <<watching, dirty, lockCfg, cl, hist>>

\* proxy.set(s, value) with a scalar value: the keys stored below the key
\* are replaced by it, the key itself is written.
ReplacedSet(p, s, value) ==
    LET full_key == FullKey(p, s) IN
    ReplacedOp(proxy_set(redis, full_key, value),
               LastOp("set", p, s, value, PyNone, "none"),
               {r \in prog.replaced : r[2] # full_key}
                   \cup {<<full_key, k>> : k \in ScanBelow(redis, full_key)})

\* proxy.delete(s)
ReplacedDelete(p, s) ==
    ReplacedOp(proxy_clear(redis, FullKey(p, s)),
               LastOp("delete", p, s, PyNone, PyNone, "none"),
               prog.replaced)

\* proxy.val() or proxy.get(s).val()
ReplacedVal(p, s) ==
    \E ret \in proxy_val(redis, FullKey(p, s), PyNone) :
        ReplacedOp(redis, LastOp("val", p, s, PyNone, ret, "none"), prog.replaced)

NextReplaced ==
    \/ \E p \in ProxyPaths, s \in SubPaths, v \in ReplacedValues : ReplacedSet(p, s, v)
    \/ \E p \in ProxyPaths, s \in SubPaths : ReplacedDelete(p, s)
    \/ \E p \in ProxyPaths, s \in OwnOrSub : ReplacedVal(p, s)

SpecReplaced == InitReplaced /\ [][NextReplaced]_vars

\* The value holds a scalar leaf at the path (a sequence of dict keys).
RECURSIVE LeafAt(_, _)
LeafAt(value, path) ==
    IF path = <<>> THEN value.kind # "dict"
    ELSE /\ value.kind = "dict"
         /\ <<Head(path)>> \in DOMAIN value.items
         /\ LeafAt(value.items[<<Head(path)>>], Tail(path))

\* The last call was val() at the key or at an ancestor of it.
ValAtOrAbove(k) ==
    /\ prog.last.op = "val"
    /\ (LastKey = k \/ Matches(k, LastKey))

\* C36: a value replaced by a later write never reappears: once set(A, v)
\* with a scalar v has been performed, no val() at A or at an ancestor of A
\* returns a leaf that was stored below A before that set, whatever set and
\* delete calls on other paths follow.
C36_ReplacedNeverReappears ==
    \A r \in prog.replaced :
        ValAtOrAbove(r[1]) =>
            ~LeafAt(prog.last.ret, SubSeq(r[2], Len(LastKey) + 1, Len(r[2])))

\* The same for the val() calls at A made while the key A is stored.
C36_WhileKeyStored ==
    \A r \in prog.replaced :
        (ValAtOrAbove(r[1]) /\ LastKey = r[1] /\ redis[r[1]] # Nil) =>
            ~LeafAt(prog.last.ret, SubSeq(r[2], Len(LastKey) + 1, Len(r[2])))

\* ------------------------------------------------- val() next to a writer

\* Number of calls the reader and the other client make together.
MaxRaceOps == 3

\* The values the other client stores.
RaceValues == {PyNum(1), PyDict(DictPut(NoItems, <<"b">>, PyNum(1)))}

\* The reader is not in val().
ReaderIdle(last) ==
    [kind |-> "race", pc |-> "idle", full_key |-> <<>>, default |-> PyNone,
     pending |-> <<>>, seen |-> {}, nested |-> NoItems, last |-> last]

\* A reader and another client with an empty server. The reader runs val()
\* command by command; prog holds the position of the reader in val(), the
\* keys its scan delivered (seen), those it still has to read (pending)
\* and the dict fed so far.
InitValRace ==
    /\ Start(EmptyDb)
    /\ lockCfg.acquire_timeout = PyInt(0)
    /\ opsLeft = MaxRaceOps
    /\ prog = ReaderIdle(LastOp("none", <<>>, <<>>, PyNone, PyNone, "none"))
    /\ hist = NoHistory(FALSE, FALSE)

\* A call of the other client (set, delete, clear or expire), which leaves
\* the server as db; it takes effect between two commands of the reader.
RaceOther(db) ==
    /\ prog.kind = "race"
    /\ opsLeft > 0
    /\ opsLeft' = opsLeft - 1
    /\ redis' = db
    /\ UNCHANGED <<watching, dirty, lockCfg, cl, prog, hist>>

\* A step of the reader, which sends no writing command.
ReaderStep(next) ==
    /\ prog.kind = "race"
    /\ prog' = next
    /\ UNCHANGED <<redis, watching, dirty, lockCfg, cl, hist>>

\* _Proxy.val, proxy.py:275-283: the reader calls val(default) on the proxy
\* of p or on get(s) of it; the GET of the key itself returns its value, if
\* there is one.
ValGet(p, s, default) ==
    LET full_key == FullKey(p, s)
        last == LastOp("val", p, s, default, PyNone, "none")
    IN  /\ prog.pc = "idle"
        /\ opsLeft > 0
        /\ opsLeft' = opsLeft - 1
        /\ ReaderStep(IF redis[full_key] # Nil
                      THEN ReaderIdle([last EXCEPT !.ret = json_loads(redis[full_key].val)])
                      ELSE [ReaderIdle(last) EXCEPT !.pc = "scan", !.full_key = full_key,
                                                    !.default = default])

\* _Proxy.val, proxy.py:285-286: scan_iter delivers the keys that exist below
\* the key, in some order.
ValScan ==
    /\ prog.pc = "scan"
    /\ UNCHANGED opsLeft
    /\ \E order \in Orders(ScanBelow(redis, prog.full_key)) :
         ReaderStep([prog EXCEPT !.pc = "read", !.pending = order,
                                 !.seen = ScanBelow(redis, prog.full_key)])

\* _Proxy.val, proxy.py:287-292: the GET of the next scanned key and
\* json.loads of what it returns. _to_native passes the None of a key that
\* is gone on, and json.loads(None) raises TypeError.
ValRead ==
    /\ prog.pc = "read"
    /\ prog.pending # <<>>
    /\ UNCHANGED opsLeft
    /\ LET redis_key == Head(prog.pending)
           sub_key == SubSeq(redis_key, Len(prog.full_key) + 1, Len(redis_key))
       IN  ReaderStep(IF redis[redis_key] = Nil
                      THEN ReaderIdle([prog.last EXCEPT !.exc = "TypeError"])
                      ELSE [prog EXCEPT
                              !.pending = Tail(@),
                              !.nested = feed_to_nested(@, sub_key,
                                                        json_loads(redis[redis_key].val))])

\* _Proxy.val, proxy.py:294-303: after the loop the dict is returned, or, if
\* it is empty, the default (None when exists() finds no key).
ValReturn ==
    /\ prog.pc = "read"
    /\ prog.pending = <<>>
    /\ UNCHANGED opsLeft
    /\ LET ret == IF prog.nested = NoItems
                  THEN (IF prog.default = PyNone /\ ~proxy_exists(redis, prog.full_key)
                        THEN PyNone ELSE prog.default)
                  ELSE PyDict(prog.nested)
       IN  ReaderStep(ReaderIdle([prog.last EXCEPT !.ret = ret]))

NextValRace ==
    \/ \E p \in ProxyPaths, s \in SubPaths, v \in RaceValues :
         RaceOther(proxy_set(redis, FullKey(p, s), v))
    \/ \E p \in ProxyPaths, s \in OwnOrSub : RaceOther(proxy_clear(redis, FullKey(p, s)))
    \/ \E p \in ProxyPaths, s \in OwnOrSub, secs \in ExpireArgs :
         RaceOther(proxy_expire(redis, FullKey(p, s), secs))
    \/ \E p \in ProxyPaths, s \in OwnOrSub, d \in Defaults : ValGet(p, s, d)
    \/ ValScan
    \/ ValRead
    \/ ValReturn
    \/ Tick

SpecValRace == InitValRace /\ [][NextValRace]_vars

\* C37: val() on a proxy always returns a value (the stored scalar, the
\* reassembled mapping or the default) and never fails, whatever set, delete,
\* clear or expiry of a leaf of its subtree happens between its scan and its
\* reads of the scanned keys.
C37_ValNeverFails == prog.last.exc = "none"

\* The step is a read of val() that raises.
ValFails == prog.pc = "read" /\ prog'.pc = "idle" /\ prog'.last.exc # "none"

\* val() fails only in the read of a scanned key that is gone since the scan.
C37_FailsOnlyOnVanishedKey ==
    [][ValFails => (Head(prog.pending) \in prog.seen /\ redis[Head(prog.pending)] = Nil)]_vars

\* A val() whose scanned keys are exactly the keys stored below its key when
\* it returns, returns one of the values val() gives when nothing happens in
\* between.
C37_UndisturbedReturns ==
    [][(prog.pc = "read" /\ prog'.pc = "idle" /\ prog'.last.exc = "none"
           /\ ScanBelow(redis, prog.full_key) = prog.seen
           /\ redis[prog.full_key] = Nil) =>
          prog'.last.ret \in proxy_val(redis, prog.full_key, prog.default)]_vars

====
